---- MODULE Spec2Model ----
(***************************************************************************)
(* A model of the funqy interpreter (rvanasa/funqy): the numeric kernel of *)
(* src/src/engine.rs, the extract-gate construction and the evaluator of   *)
(* src/src/eval.rs, the types of src/src/types.rs and the static typing of *)
(* src/src/eval_static.rs.                                                 *)
(*                                                                         *)
(* Numbers.  An amplitude (Cf32) is a pair <<re, im>> of integers: the     *)
(* model computes exactly where the code computes in f32.  The one         *)
(* irrational step of the kernel, the division by div = sqrt(...) in       *)
(* create_sup, is kept symbolic: a scaled state [amps, div2] stands for    *)
(* the vector amps / sqrt(div2).                                           *)
(***************************************************************************)
EXTENDS Integers, Sequences, FiniteSets, TLC

VARIABLES
  pc,              \* position of the running operation
  args,            \* the inputs of the kernel operation under study
  ret,             \* the value the operation returned
  cases,           \* create_extract_gate_typed: the case table
  min_input_size,  \* create_extract_gate_typed: its min_input_size argument
  dims,            \* create_extract_gate_typed: the local `dims`
  output_type,     \* create_extract_gate_typed: the local `output_type`
  next_case,       \* create_extract_gate_typed: cases consumed by `cases.iter()`
  ctx,             \* the REPL's mutable Context (main.rs `ctx`)
  line,            \* the expression of the running/last eval call
  lambdas,         \* history: every Lambda evaluation (pattern, body, context then)
  calls,           \* history: the Func bodies entered by the last eval call
  evals,           \* history: the eval_exp calls of the last eval call
  nlines           \* number of lines the REPL has read

kernelVars == <<args, ret>>
gateVars == <<cases, min_input_size, dims, output_type, next_case>>
evalVars == <<ctx, line, lambdas, calls, evals, nlines>>
vars == <<pc, kernelVars, gateVars, evalVars>>

None == [k |-> "None"]

-----------------------------------------------------------------------------
(* Bounds of the model *)

\* longest amplitude vector drawn as an input of combine
MaxLen == 2
\* longest case table drawn for create_extract_gate_typed
MaxCases == 3
\* number of phase rotations applied in a row
MaxPhases == 2
\* number of lines the REPL reads
MaxLines == 3

-----------------------------------------------------------------------------
(* Complex amplitudes: num::complex::Complex<f32>, exact *)

real(n) == <<n, 0>>
imag(n) == <<0, n>>
CAdd(x, y) == <<x[1] + y[1], x[2] + y[2]>>
CMul(x, y) == <<x[1] * y[1] - x[2] * y[2], x[1] * y[2] + x[2] * y[1]>>
CNeg(x) == <<0 - x[1], 0 - x[2]>>

absq(n) == n[1] * n[1] + n[2] * n[2]

-----------------------------------------------------------------------------
(* engine.rs: states *)

get_state(n) == [i \in 1..(n + 1) |-> IF i = n + 1 THEN real(1) ELSE real(0)]

pad(s, n) == IF Len(s) < n THEN [i \in 1..n |-> IF i <= Len(s) THEN s[i] ELSE real(0)] ELSE s

RECURSIVE SumTo(_, _)
SumTo(f, n) == IF n = 0 THEN 0 ELSE f[n] + SumTo(f, n - 1)

prob_sum(s) == SumTo([i \in 1..Len(s) |-> absq(s[i])], Len(s))

Max(a, b) == IF a > b THEN a ELSE b

\* zip(a, b, |x, y| x + y): the only closure the code passes
zip_add(a, b) ==
  LET max_len == Max(Len(a), Len(b))
      pa == pad(a, max_len)
      pb == pad(b, max_len)
  IN [i \in 1..max_len |-> CAdd(pa[i], pb[i])]

RECURSIVE FoldZip(_, _)
FoldZip(states, n) == IF n = 0 THEN <<>> ELSE zip_add(FoldZip(states, n - 1), states[n])

\* the result stands for amps / sqrt(div2); div2 = 0 is the division by 0.0
create_sup(states) ==
  [amps |-> FoldZip(states, Len(states)),
   div2 |-> SumTo([i \in 1..Len(states) |-> prob_sum(states[i])], Len(states))]

phase_flip(s) == [i \in 1..Len(s) |-> CNeg(s[i])]

\* cos and sin of p * PI for a phase p given in half turns (p = h / 2)
CosHalf(h) == CASE h % 4 = 0 -> 1 [] h % 4 = 2 -> 0 - 1 [] OTHER -> 0
SinHalf(h) == CASE h % 4 = 1 -> 1 [] h % 4 = 3 -> 0 - 1 [] OTHER -> 0

phase(s, h) ==
  [i \in 1..Len(s) |->
    <<CosHalf(h) * s[i][1] + SinHalf(h) * s[i][2],
      SinHalf(h) * s[i][1] + CosHalf(h) * s[i][2]>>]

\* State::extract: zip stops at the shorter of the state and the gate
extract(s, g) ==
  LET n == IF Len(s) < Len(g) THEN Len(s) ELSE Len(g)
  IN create_sup([i \in 1..n |-> [j \in 1..Len(g[i]) |-> CMul(s[i], g[i][j])]])

\* a combine with the second operand as the most significant one
combine_swapped(a, s) ==
  [i \in 1..(Len(a) * Len(s)) |->
    CMul(a[((i - 1) % Len(a)) + 1], s[((i - 1) \div Len(a)) + 1])]

\* State::combine: for x in self, for y in s: push x * y
combine(a, s) ==
  [i \in 1..(Len(a) * Len(s)) |->
    CMul(a[((i - 1) \div Len(s)) + 1], s[((i - 1) % Len(s)) + 1])]

-----------------------------------------------------------------------------
(* types.rs: DataType and Type; eval.rs: RunVal *)

DataType(id, variants) == [id |-> id, variants |-> variants]

TAny == [k |-> "Any"]
TData(dt) == [k |-> "Data", dt |-> dt]
TTuple(ts) == [k |-> "Tuple", types |-> ts]
TConcat(ts) == [k |-> "Concat", types |-> ts]
TFunc(a, r) == [k |-> "Func", arg |-> a, ret |-> r]

Index(n) == [k |-> "Index", n |-> n]
Data(dt, i) == [k |-> "Data", dt |-> dt, index |-> i]
Tuple(vals) == [k |-> "Tuple", vals |-> vals]
Func(c, pat, body, ty) == [k |-> "Func", ctx |-> c, pat |-> pat, body |-> body, ty |-> ty]
Macro(id) == [k |-> "Macro", id |-> id]
\* a String is the sequence of its pieces: a scheme with its colon, a
\* separator, a name or an extension is one piece
String(s) == [k |-> "String", str |-> s]
StateVal(s, ty) == [k |-> "State", state |-> s, ty |-> ty]
Gate(g) == [k |-> "Gate", gate |-> g]

\* Ret<T>: Ok(..) carries its fields, Err is the error
Err == [ok |-> FALSE]

\* the prelude's data types (stdlib.rs create_ctx)
Bool == DataType("Bool", <<"F", "T">>)
Axis == DataType("Axis", <<"X", "Y", "Z">>)

\* the values a data declaration binds: Data(rc, i) for (i, variant) in enumerate()
Variants(dt) == {Data(dt, i) : i \in 0..(Len(dt.variants) - 1)}

RECURSIVE build_state_typed(_)
build_state_typed(val) ==
  CASE val.k = "Index" -> [ok |-> TRUE, state |-> get_state(val.n), ty |-> TAny]
    [] val.k = "Data" ->
         [ok |-> TRUE, state |-> pad(get_state(val.index), Len(val.dt.variants)), ty |-> TData(val.dt)]
    [] val.k = "Tuple" ->
         LET states == [i \in 1..Len(val.vals) |-> build_state_typed(val.vals[i])]
             fold[n \in 0..Len(states)] ==
               IF n = 0 THEN get_state(0) ELSE combine(fold[n - 1], states[n].state)
         IN IF \E i \in 1..Len(states) : ~states[i].ok THEN Err
            ELSE [ok |-> TRUE, state |-> fold[Len(states)],
                  ty |-> TTuple([i \in 1..Len(states) |-> states[i].ty])]
    [] val.k = "State" -> [ok |-> TRUE, state |-> val.state, ty |-> val.ty]
    [] OTHER -> Err

-----------------------------------------------------------------------------
(* Inputs of the kernel operations *)

Amps == {real(0), real(1), real(0 - 1), imag(1)}

Vectors(S, n) == UNION {[1..m -> S] : m \in 0..n}

-----------------------------------------------------------------------------
(* SpecCombine: State::combine and build_state_typed on tuples of data values *)

DataVals == Variants(Bool) \cup Variants(Axis)

IdleGate ==
  /\ cases = <<>> /\ min_input_size = 0 /\ dims = <<>>
  /\ output_type = None /\ next_case = 0
IdleEval ==
  /\ ctx = None /\ line = None /\ lambdas = {}
  /\ calls = {} /\ evals = {} /\ nlines = 0

InitCombine ==
  /\ pc = "call"
  /\ args \in {[kind |-> "vec", a |-> a, b |-> b] :
                 a \in Vectors(Amps, MaxLen), b \in Vectors(Amps, MaxLen)}
            \cup {[kind |-> "tuple", val |-> Tuple(vs)] : vs \in Vectors(DataVals, MaxLen)}
  /\ ret = None
  /\ IdleGate /\ IdleEval

Combine ==
  /\ pc = "call" /\ args.kind = "vec"
  /\ ret' = combine(args.a, args.b)
  /\ pc' = "done"
  /\ UNCHANGED <<args, gateVars, evalVars>>

BuildState ==
  /\ pc = "call" /\ args.kind = "tuple"
  /\ ret' = build_state_typed(args.val)
  /\ pc' = "done"
  /\ UNCHANGED <<args, gateVars, evalVars>>

NextCombine == Combine \/ BuildState
SpecCombine == InitCombine /\ [][NextCombine]_vars

\* the basis vector of length n whose single 1 is at index i (from 0)
Basis(n, i) == [j \in 1..n |-> IF j = i + 1 THEN real(1) ELSE real(0)]

(* C6: combine(a, b) has length |a|*|b| and its entry at index i*|b| + j is
   a[i]*b[j]; build_state of a pair (x, y) of data values with indices i_a, i_b
   and variant counts d_a, d_b is the basis vector of length d_a*d_b whose
   single 1 is at index i_a*d_b + i_b. *)
C6_CombineIndexEncoding ==
  /\ (pc = "done" /\ args.kind = "vec") =>
       /\ Len(ret) = Len(args.a) * Len(args.b)
       /\ \A i \in 0..(Len(args.a) - 1) : \A j \in 0..(Len(args.b) - 1) :
            ret[i * Len(args.b) + j + 1] = CMul(args.a[i + 1], args.b[j + 1])
  /\ (pc = "done" /\ args.kind = "tuple" /\ Len(args.val.vals) = 2) =>
       LET x == args.val.vals[1]
           y == args.val.vals[2]
           d_a == Len(x.dt.variants)
           d_b == Len(y.dt.variants)
       IN /\ ret.ok
          /\ ret.state = Basis(d_a * d_b, x.index * d_b + y.index)

\* (T, F) over the two-variant Bool has been built: [0, 0, 1, 0]
C6_Witness ==
  /\ pc = "done" /\ args.kind = "tuple"
  /\ args.val = Tuple(<<Data(Bool, 1), Data(Bool, 0)>>)
  /\ ret.state = <<real(0), real(0), real(1), real(0)>>

-----------------------------------------------------------------------------
(* SpecSup: create_sup on lists of amplitude vectors *)

InitSup ==
  /\ pc = "call"
  /\ args \in Vectors(Vectors(Amps, MaxLen), MaxLen)
  /\ ret = None
  /\ IdleGate /\ IdleEval

CreateSup ==
  /\ pc = "call"
  /\ ret' = create_sup(args)
  /\ pc' = "done"
  /\ UNCHANGED <<args, gateVars, evalVars>>

NextSup == CreateSup
SpecSup == InitSup /\ [][NextSup]_vars

\* prob_sum(amps / sqrt(div2)) = 1; a division by 0.0 gives no number at all
Normalized(v) == v.div2 # 0 /\ prob_sum(v.amps) = v.div2

(* C4: for every list of amplitude vectors passed to create_sup, the returned
   state v has prob_sum(v) = 1. *)
C4_SupNormalized ==
  (pc = "done" /\ Len(args) > 0 /\ \A i \in 1..Len(args) : prob_sum(args[i]) > 0)
    => Normalized(ret)

-----------------------------------------------------------------------------
(* SpecPhase: Stateful::phase applied MaxPhases times in a row *)

\* the phases drawn, in half turns: 0, 1/2, 1, 3/2
HalfTurns == 0..3

InitPhase ==
  /\ pc = "call"
  /\ args \in {[v |-> v, total |-> 0, n |-> 0] : v \in Vectors(Amps, MaxLen)}
  /\ ret = args.v
  /\ IdleGate /\ IdleEval

\* ret := ret.phase(h / 2)
Phase(h) ==
  /\ pc = "call" /\ args.n < MaxPhases
  /\ ret' = phase(ret, h)
  /\ args' = [args EXCEPT !.total = @ + h, !.n = @ + 1]
  /\ UNCHANGED <<pc, gateVars, evalVars>>

NextPhase == \E h \in HalfTurns : Phase(h)
SpecPhase == InitPhase /\ [][NextPhase]_vars

(* C7: phase(phase(v, a), b) = phase(v, a + b) and phase(v, 0) = v: the state
   reached by successive rotations is the initial state rotated by the sum of
   the phases. *)
C7_PhaseAdditive ==
  /\ ret = phase(args.v, args.total)
  /\ phase(ret, 0) = ret

-----------------------------------------------------------------------------
(* SpecMeasure: Stateful::measure *)

U16Max == 65535

\* A u32 is a pair <<hi, lo>> of 16-bit limbs (TLC's integers are 32-bit signed)
Limb == U16Max + 1
U32(n) == <<n \div Limb, n % Limb>>
U32Max == <<U16Max, U16Max>>
IsZero32(x) == x[1] = 0 /\ x[2] = 0

\* u32::checked_add: Overflow stands for None
Overflow == <<Limb, 0>>
checked_add(x, y) ==
  LET lo == x[2] + y[2]
      hi == x[1] + y[1] + (lo \div Limb)
  IN IF hi > U16Max THEN Overflow ELSE <<hi, lo % Limb>>

\* `f as u32` of an f32 out of range (65535 / 0.0 = inf) was undefined behaviour
\* in the toolchain the crate needs: x86-64 yields 0, a saturating target u32::MAX
UndefCast == {U32(0), U32Max}

\* normalized states amps / sqrt(div2)
MeasureInputs ==
  {[amps |-> v, div2 |-> prob_sum(v)] :
     v \in {w \in Vectors(Amps \cup {real(2), real(3)}, MaxLen) : prob_sum(w) > 0}}

\* (u16::MAX as f32 / absq(n)) as u32, for the amplitude a / sqrt(div2); the
\* quotient of the amplitudes drawn stays far below u32::MAX
weight(a, div2, undef) ==
  IF absq(a) = 0 THEN undef ELSE U32((U16Max * div2) \div absq(a))

InitMeasure ==
  /\ pc = "call"
  /\ args \in MeasureInputs
  /\ ret = None
  /\ IdleGate /\ IdleEval

\* rand's WeightedChoice::new: the running total of the weights, by checked_add
RECURSIVE running_total(_, _)
running_total(weights, n) ==
  IF n = 0 THEN U32(0)
  ELSE LET t == running_total(weights, n - 1)
       IN IF t = Overflow THEN Overflow ELSE checked_add(t, weights[n])

\* WeightedChoice::new panics on no items, on a total weight that overflows u32
\* and on a total weight of 0; sample returns an item of weight > 0
Measure(undef, i) ==
  /\ pc = "call"
  /\ LET weights == [j \in 1..Len(args.amps) |-> weight(args.amps[j], args.div2, undef)]
         total == running_total(weights, Len(weights))
     IN IF Len(weights) = 0 \/ total = Overflow \/ IsZero32(total)
        THEN pc' = "panic" /\ ret' = [weights |-> weights]
        ELSE /\ i \in 1..Len(weights)
             /\ ~IsZero32(weights[i])
             /\ pc' = "done"
             /\ ret' = [index |-> i - 1, weights |-> weights]
  /\ UNCHANGED <<args, gateVars, evalVars>>

NextMeasure == \E undef \in UndefCast : \E i \in 1..MaxLen + 1 : Measure(undef, i)
SpecMeasure == InitMeasure /\ [][NextMeasure]_vars

\* weights w proportional to the squared magnitudes q, up to the rounding of
\* each weight to an integer: a zero magnitude has weight 0, and the weights of
\* two non-zero magnitudes (below 2^31 here) are in the ratio of the magnitudes
Proportional(w, q) ==
  \A i \in 1..Len(w) : \A j \in 1..Len(w) :
    IF q[i] = 0 THEN IsZero32(w[i])
    ELSE q[j] # 0 =>
      LET wi == w[i][1] * Limb + w[i][2]
          wj == w[j][1] * Limb + w[j][2]
      IN /\ wi * q[j] - wj * q[i] <= q[i] + q[j]
         /\ wj * q[i] - wi * q[j] <= q[i] + q[j]

(* C5: measure(v) returns an index i only if the amplitude v[i] is non-zero,
   choosing among such indices with weight proportional to the squared
   magnitude of v[i]. *)
C5_MeasureProportional ==
  (pc = "done") =>
    /\ absq(args.amps[ret.index + 1]) # 0
    /\ Proportional(ret.weights, [j \in 1..Len(args.amps) |-> absq(args.amps[j])])

-----------------------------------------------------------------------------
(* eval.rs: create_extract_gate_typed, one case of the table per step *)

CaseExp(selector, result) == [k |-> "Exp", selector |-> selector, result |-> result]
CaseDefault(result) == [k |-> "Default", result |-> result]

build_state(val) == build_state_typed(val).state

\* reduce_type, with None for Option::None
reduce_type(ot, t) == IF ot = None THEN t ELSE IF ot = t THEN t ELSE TAny

\* a growth that stops at the selector's length
grow_to_selector(d, selector_len, min_size) ==
  LET n == Max(Len(d), selector_len)
  IN [i \in 1..n |-> IF i <= Len(d) THEN d[i] ELSE <<>>]

\* while dims.len() < selector_state.len() || dims.len() < min_input_size: push vec![]
grow(d, selector_len, min_size) ==
  LET n == Max(Len(d), Max(selector_len, min_size))
  IN [i \in 1..n |-> IF i <= Len(d) THEN d[i] ELSE <<>>]

\* an accumulation that forgets what the column held: r * s
accumulate_overwrite(column, result_state, s) ==
  LET len == Max(Len(result_state), Len(column))
      r == pad(result_state, len)
  IN [j \in 1..len |-> CMul(r[j], s)]

\* dims[i] = result.pad(len) zip dims[i].pad(len) map |(r, d)| r * s + d
accumulate(column, result_state, s) ==
  LET len == Max(Len(result_state), Len(column))
      r == pad(result_state, len)
      d == pad(column, len)
  IN [j \in 1..len |-> CAdd(CMul(r[j], s), d[j])]

\* Case::Exp: every index of the selector state accumulates into its column
exp_case(d, selector_state, result_state, min_size) ==
  LET g == grow(d, Len(selector_state), min_size)
  IN [i \in 1..Len(g) |->
       IF i <= Len(selector_state) THEN accumulate(g[i], result_state, selector_state[i])
       ELSE g[i]]

\* a Default that overwrites every column
default_case_overwrite(d, state) == [i \in 1..Len(d) |-> state]

\* Case::Default: the columns of zero probability mass become the result state
default_case(d, state) ==
  [i \in 1..Len(d) |-> IF prob_sum(d[i]) = 0 THEN state ELSE d[i]]

\* gate.width(): the longest column
RECURSIVE MaxColumn(_, _)
MaxColumn(d, n) == IF n = 0 THEN 0 ELSE Max(Len(d[n]), MaxColumn(d, n - 1))

\* let gate = dims.into_iter().map(|s| s.pad(max_len)).collect()
pad_gate(d) == [i \in 1..Len(d) |-> pad(d[i], MaxColumn(d, Len(d)))]

-----------------------------------------------------------------------------
(* SpecGate: a case table is compiled case by case, then applied (Exp::Extract) *)

\* `~T`: lib_phf returns the phase-flipped state tagged Any
NegT == StateVal(phase_flip(build_state(Data(Bool, 1))), TAny)

\* the values the selectors and results of one table evaluate to: the values
\* of Bool with `~T`, the values of Axis, and the index 0 with Z, whose states
\* have the lengths 1 and 3
Families == {Variants(Bool) \cup {NegT}, Variants(Axis), {Index(0), Data(Axis, 2)}}

CasesOf(V) == {CaseExp(x, y) : x \in V, y \in V} \cup {CaseDefault(y) : y \in V}

InitGate ==
  /\ pc = "cases"
  /\ \E V \in Families :
       /\ cases \in Vectors(CasesOf(V), MaxCases)
       \* eval_gate_body passes 0, Exp::Extract the length of the argument state
       /\ min_input_size \in {0} \cup {Len(build_state(x)) : x \in V}
  /\ dims = <<>>
  /\ output_type = None
  /\ next_case = 0
  /\ args = None
  /\ ret = None
  /\ IdleEval

StepExp ==
  /\ pc = "cases" /\ next_case < Len(cases)
  /\ LET case == cases[next_case + 1]
     IN /\ case.k = "Exp"
        /\ dims' = exp_case(dims, build_state(case.selector), build_state(case.result),
                            min_input_size)
        /\ output_type' = reduce_type(output_type, build_state_typed(case.result).ty)
  /\ next_case' = next_case + 1
  /\ UNCHANGED <<pc, kernelVars, cases, min_input_size, evalVars>>

StepDefault ==
  /\ pc = "cases" /\ next_case < Len(cases)
  /\ LET case == cases[next_case + 1]
     IN /\ case.k = "Default"
        /\ dims' = default_case(dims, build_state(case.result))
        /\ output_type' = reduce_type(output_type, build_state_typed(case.result).ty)
  /\ next_case' = next_case + 1
  /\ UNCHANGED <<pc, kernelVars, cases, min_input_size, evalVars>>

\* the loop is over: pad the columns and return (gate, output_type.unwrap_or(Any))
Finish ==
  /\ pc = "cases" /\ next_case = Len(cases)
  /\ ret' = [gate |-> pad_gate(dims),
             ty |-> IF output_type = None THEN TAny ELSE output_type,
             out |-> None]
  /\ pc' = "built"
  /\ UNCHANGED <<args, gateVars, evalVars>>

\* Exp::Extract: RunVal::State(state.extract(gate), gt), for an argument whose
\* state has the length that was passed as min_input_size
Apply(arg) ==
  /\ pc = "built"
  /\ Len(build_state(arg)) = min_input_size
  /\ args' = arg
  /\ ret' = [ret EXCEPT !.out = extract(build_state(arg), ret.gate)]
  /\ pc' = "applied"
  /\ UNCHANGED <<gateVars, evalVars>>

NextGate ==
  \/ StepExp
  \/ StepDefault
  \/ Finish
  \/ \E V \in Families : \E arg \in V : Apply(arg)
SpecGate == InitGate /\ [][NextGate]_vars

\* the table is made only of Exp cases, its selectors are the n distinct values
\* of one data type, its results are pairwise distinct data values
PermutationTable ==
  /\ Len(cases) > 0
  /\ \A c \in 1..Len(cases) :
       /\ cases[c].k = "Exp"
       /\ cases[c].selector.k = "Data" /\ cases[c].result.k = "Data"
       /\ cases[c].selector.dt = cases[1].selector.dt
  /\ Len(cases) = Len(cases[1].selector.dt.variants)
  /\ \A c \in 1..Len(cases) : \A e \in 1..Len(cases) :
       c # e => /\ cases[c].selector # cases[e].selector
                /\ cases[c].result # cases[e].result

\* every column of g holds a single 1, and no two columns hold it in the same row
IsPermutationMatrix(g) ==
  /\ \A i \in 1..Len(g) :
       /\ Len(g[i]) = Len(g)
       /\ \E j \in 1..Len(g) : g[i] = Basis(Len(g), j - 1)
  /\ \A i \in 1..Len(g) : \A j \in 1..Len(g) : i # j => g[i] # g[j]

(* C1: for a case table made only of Exp cases whose selectors are the n
   pairwise-distinct basis values of one data type and whose results are
   pairwise-distinct basis values, the gate built is a permutation matrix: its
   column for input index i is the basis vector of the result paired with
   selector i, and the extract applied to basis value i returns that vector. *)
C1_PermutationGate ==
  (pc \in {"built", "applied"} /\ PermutationTable) =>
    /\ IsPermutationMatrix(ret.gate)
    /\ \A c \in 1..Len(cases) :
         ret.gate[cases[c].selector.index + 1]
           = Basis(Len(cases[c].result.dt.variants), cases[c].result.index)
    /\ (pc = "applied" /\ args.k = "Data") =>
         /\ ret.out.div2 = 1
         /\ \A c \in 1..Len(cases) :
              cases[c].selector = args => ret.out.amps = build_state(cases[c].result)

\* not = {F => T, T => F} has been built as [[0,1],[1,0]] and not(T) returned [1,0]
C1_Witness ==
  /\ pc = "applied"
  /\ cases = <<CaseExp(Data(Bool, 0), Data(Bool, 1)), CaseExp(Data(Bool, 1), Data(Bool, 0))>>
  /\ args = Data(Bool, 1)
  /\ ret.gate = <<<<real(0), real(1)>>, <<real(1), real(0)>>>>
  /\ ret.out = [amps |-> <<real(1), real(0)>>, div2 |-> 1]
  /\ ret.ty = TData(Bool)

\* the step the builder is about to take consumes a Default case
AtDefault == pc = "cases" /\ next_case < Len(cases) /\ cases[next_case + 1].k = "Default"

(* C2: a Default(result) case never changes a column whose probability mass is
   non-zero at the moment the Default is processed: every such column is the
   same before and after the case, and only the columns of zero mass are set
   to the default's result state. *)
C2_DefaultKeepsNonZero ==
  [][AtDefault =>
      /\ Len(dims') = Len(dims)
      /\ \A i \in 1..Len(dims) :
           IF prob_sum(dims[i]) # 0 THEN dims'[i] = dims[i]
           ELSE dims'[i] = build_state(cases[next_case + 1].result)]_vars

\* {F => T, _ => F} on a two-dimensional input: the Default has been consumed,
\* column 0 kept T and the empty column 1 became F
C2_Witness ==
  /\ pc = "cases" /\ next_case = 2 /\ min_input_size = 2
  /\ cases = <<CaseExp(Data(Bool, 0), Data(Bool, 1)), CaseDefault(Data(Bool, 0))>>
  /\ dims = <<<<real(0), real(1)>>, <<real(1), real(0)>>>>

\* the amplitude that the Exp cases of the whole table add up to in row j of column i
RECURSIVE ExpSum(_, _, _)
ExpSum(n, i, j) ==
  IF n = 0 THEN real(0)
  ELSE LET c == cases[n]
           s == build_state(c.selector)
           r == build_state(c.result)
       IN IF c.k = "Exp" /\ i <= Len(s) /\ j <= Len(r)
          THEN CAdd(ExpSum(n - 1, i, j), CMul(s[i], r[j]))
          ELSE ExpSum(n - 1, i, j)

\* the longest selector and the longest result state of the table
RECURSIVE LongestSelector(_)
LongestSelector(n) ==
  IF n = 0 THEN 0
  ELSE Max(LongestSelector(n - 1),
           IF cases[n].k = "Exp" THEN Len(build_state(cases[n].selector)) ELSE 0)
RECURSIVE LongestResult(_)
LongestResult(n) ==
  IF n = 0 THEN 0 ELSE Max(LongestResult(n - 1), Len(build_state(cases[n].result)))

\* column i receives no probability mass from the Exp cases
NoExpMass(i) == \A j \in 1..LongestResult(Len(cases)) : ExpSum(Len(cases), i, j) = real(0)

Defaults == {c \in 1..Len(cases) : cases[c].k = "Default"}

(* C3: for every case table that contains a Default(result) case, in the gate
   returned every input index i below the gate's input dimension (the larger
   of min_input_size and the longest selector) whose column receives zero
   probability mass from the Exp cases of the whole table has the default's
   result state as its column, wherever the Default stands in the table.
   Stated for the tables with a single Default case and some Exp case. *)
C3_DefaultFillsAnywhere ==
  (pc = "built" /\ Cardinality(Defaults) = 1 /\ Len(cases) > 1) =>
    LET d == build_state(cases[CHOOSE c \in Defaults : TRUE].result)
    IN \A i \in 1..Max(min_input_size, LongestSelector(Len(cases))) :
         NoExpMass(i) =>
           /\ i <= Len(ret.gate)
           /\ ret.gate[i] = pad(d, Len(ret.gate[i]))

-----------------------------------------------------------------------------
(* ast.rs: the patterns, declarations and expressions the evaluator is run on.
   Of the expression forms, Repeat, State and Phase are not modelled. *)

PatAny == [k |-> "Any"]
PatVar(id) == [k |-> "Var", id |-> id]
PatTuple(pats) == [k |-> "Tuple", pats |-> pats]
PatAnno(pat, anno) == [k |-> "Anno", pat |-> pat, anno |-> anno]
\* Pat::Concat, as eval_type and infer_pat_type match it
PatConcat(pats) == [k |-> "Concat", pats |-> pats]

Let(pat, exp) == [k |-> "Let", pat |-> pat, exp |-> exp]
DeclType(id, pat) == [k |-> "Type", id |-> id, pat |-> pat]
DeclData(id, variants) == [k |-> "Data", id |-> id, variants |-> variants]
DeclAssert(expect, result) == [k |-> "Assert", expect |-> expect, result |-> result]
DeclPrint(e) == [k |-> "Print", exp |-> e]

ExpIndex(n) == [k |-> "Index", n |-> n]
ExpVar(id) == [k |-> "Var", id |-> id]
ExpString(s) == [k |-> "String", str |-> s]
ExpScope(decls, e) == [k |-> "Scope", decls |-> decls, ret |-> e]
ExpTuple(es) == [k |-> "Tuple", args |-> es]
ExpLambda(pat, body) == [k |-> "Lambda", pat |-> pat, body |-> body]
ExpInvoke(target, arg) == [k |-> "Invoke", target |-> target, arg |-> arg]
ExpAnno(e, anno) == [k |-> "Anno", exp |-> e, anno |-> anno]
ExpCond(c, t, e) == [k |-> "Cond", cond |-> c, then |-> t, else |-> e]
ExpExpand(e) == [k |-> "Expand", exp |-> e]
ExpConcat(es) == [k |-> "Concat", args |-> es]
\* the cases are CaseExp(selector, result) and CaseDefault(result) of expressions
ExpExtract(arg, cs) == [k |-> "Extract", arg |-> arg, cases |-> cs]

-----------------------------------------------------------------------------
(* eval_static.rs: TypeContext, eval_type, infer_type *)

\* let v = x; F(v): x is evaluated once, before F uses it
Bind(x, F(_)) == CHOOSE r \in {F(v) : v \in {x}} : TRUE

\* HashMap::new
EmptyMap == [n \in {} |-> None]

\* HashMap::insert
insert(map, key, v) ==
  [n \in DOMAIN map \cup {key} |-> IF n = key THEN v ELSE map[n]]

\* TypeContext::add_type
add_type(types, id, ty) == insert(types, id, ty)

\* TypeContext::add_var_type: variable types live under the key "@" + id
add_var_type(types, id, ty) == insert(types, "@" \o id, ty)

\* TypeContext::add_datatype_type
add_datatype_type(types, id, variants) ==
  LET rc == DataType(id, variants)
      fold[i \in 0..Len(variants)] ==
        IF i = 0 THEN types ELSE add_var_type(fold[i - 1], variants[i], TData(rc))
  IN add_type(fold[Len(variants)], id, TData(rc))

\* eval_type: Any, Var, Tuple and Concat patterns
RECURSIVE eval_type(_, _)
eval_type(pat, types) ==
  CASE pat.k = "Any" -> [ok |-> TRUE, ty |-> TAny]
    [] pat.k = "Var" ->
         IF pat.id \in DOMAIN types THEN [ok |-> TRUE, ty |-> types[pat.id]] ELSE Err
    [] pat.k = "Tuple" ->
         LET ts == [i \in 1..Len(pat.pats) |-> eval_type(pat.pats[i], types)]
         IN IF \E i \in 1..Len(ts) : ~ts[i].ok THEN Err
            ELSE [ok |-> TRUE, ty |-> TTuple([i \in 1..Len(ts) |-> ts[i].ty])]
    [] pat.k = "Concat" ->
         LET ts == [i \in 1..Len(pat.pats) |-> eval_type(pat.pats[i], types)]
         IN IF \E i \in 1..Len(ts) : ~ts[i].ok THEN Err
            ELSE [ok |-> TRUE, ty |-> TConcat([i \in 1..Len(ts) |-> ts[i].ty])]
    \* "Annotations not allowed in types"
    [] pat.k = "Anno" -> Err

\* infer_pat_type
RECURSIVE infer_pat_type(_, _)
infer_pat_type(pat, types) ==
  CASE pat.k = "Any" -> [ok |-> TRUE, ty |-> TAny]
    [] pat.k = "Var" -> [ok |-> TRUE, ty |-> TAny]
    [] pat.k = "Tuple" ->
         LET ts == [i \in 1..Len(pat.pats) |-> infer_pat_type(pat.pats[i], types)]
         IN IF \E i \in 1..Len(ts) : ~ts[i].ok THEN Err
            ELSE [ok |-> TRUE, ty |-> TTuple([i \in 1..Len(ts) |-> ts[i].ty])]
    [] pat.k = "Concat" ->
         LET ts == [i \in 1..Len(pat.pats) |-> infer_pat_type(pat.pats[i], types)]
         IN IF \E i \in 1..Len(ts) : ~ts[i].ok THEN Err
            ELSE [ok |-> TRUE, ty |-> TConcat([i \in 1..Len(ts) |-> ts[i].ty])]
    [] pat.k = "Anno" -> eval_type(pat.anno, types)

\* assign_pat_type: binds the pattern's names in the type context; the fields
\* are the Ret and the context as the call leaves it (bindings made before an
\* error stay)
RECURSIVE assign_pat_type(_, _, _)
RECURSIVE assign_pats_type(_, _, _, _)
assign_pat_type(pat, ty, types) ==
  CASE pat.k = "Any" -> [ok |-> TRUE, types |-> types]
    [] pat.k = "Var" -> [ok |-> TRUE, types |-> add_var_type(types, pat.id, ty)]
    [] pat.k = "Tuple" /\ ty.k = "Tuple" ->
         IF Len(pat.pats) # Len(ty.types) THEN [ok |-> FALSE, types |-> types]
         ELSE assign_pats_type(pat.pats, ty.types, 1, types)
    [] pat.k = "Anno" ->
         IF eval_type(pat.anno, types).ok
         THEN assign_pat_type(pat.pat, eval_type(pat.anno, types).ty, types)
         ELSE [ok |-> FALSE, types |-> types]
    [] OTHER -> [ok |-> FALSE, types |-> types]

assign_pats_type(pats, tys, i, types) ==
  IF i > Len(pats) THEN [ok |-> TRUE, types |-> types]
  ELSE Bind(assign_pat_type(pats[i], tys[i], types),
            LAMBDA r : IF r.ok THEN assign_pats_type(pats, tys, i + 1, r.types) ELSE r)

\* either_type: a == b is the derived (structural) PartialEq of Type
either_type(a, b) == IF a = b THEN a ELSE TAny

RECURSIVE infer_type(_, _)
RECURSIVE infer_types(_, _, _, _)
RECURSIVE apply_decl_type(_, _)
RECURSIVE apply_decls_type(_, _, _)

\* the fold of infer_type and infer_extract_arg_type over the expressions es:
\* acc is None for Option::None; the first error ends it
infer_types(es, i, acc, types) ==
  IF i > Len(es) THEN [ok |-> TRUE, ty |-> IF acc = None THEN TAny ELSE acc]
  ELSE Bind(infer_type(es[i], types), LAMBDA b :
         IF ~b.ok THEN Err
         ELSE infer_types(es, i + 1,
                          IF acc = None THEN b.ty ELSE either_type(acc, b.ty), types))

\* infer_extract_arg_type: the selectors of the Exp cases
infer_extract_arg_type(cs, types) ==
  infer_types(SelectSeq([i \in 1..Len(cs) |-> IF cs[i].k = "Exp" THEN cs[i].selector
                                                ELSE None],
                        LAMBDA e : e # None), 1, None, types)

\* infer_type
infer_type(exp, types) ==
  CASE exp.k = "Index" -> [ok |-> TRUE, ty |-> TAny]
    [] exp.k = "String" -> [ok |-> TRUE, ty |-> TAny]
    [] exp.k = "Var" ->
         IF ("@" \o exp.id) \in DOMAIN types
         THEN [ok |-> TRUE, ty |-> types["@" \o exp.id]] ELSE Err
    [] exp.k = "Scope" ->
         Bind(apply_decls_type(exp.decls, 1, types),
              LAMBDA child : IF child.ok THEN infer_type(exp.ret, child.types) ELSE Err)
    [] exp.k = "Tuple" ->
         LET ts == [i \in 1..Len(exp.args) |-> infer_type(exp.args[i], types)]
         IN IF \E i \in 1..Len(ts) : ~ts[i].ok THEN Err
            ELSE [ok |-> TRUE, ty |-> TTuple([i \in 1..Len(ts) |-> ts[i].ty])]
    [] exp.k = "Expand" -> infer_type(exp.exp, types)
    [] exp.k = "Concat" ->
         LET ts == [i \in 1..Len(exp.args) |-> infer_type(exp.args[i], types)]
         IN IF \E i \in 1..Len(ts) : ~ts[i].ok THEN Err
            ELSE [ok |-> TRUE, ty |-> TConcat([i \in 1..Len(ts) |-> ts[i].ty])]
    [] exp.k = "Lambda" ->
         \* fn(x) = extract x {..}: the argument type comes from the selectors
         Bind(IF /\ exp.pat.k = "Var" /\ exp.body.k = "Extract"
                 /\ exp.body.arg = ExpVar(exp.pat.id)
              THEN infer_extract_arg_type(exp.body.cases, types)
              ELSE infer_pat_type(exp.pat, types), LAMBDA ty :
           IF ~ty.ok THEN Err
           ELSE Bind(assign_pat_type(exp.pat, ty.ty, types), LAMBDA fn_ctx :
                  IF ~fn_ctx.ok THEN Err
                  ELSE Bind(infer_type(exp.body, fn_ctx.types), LAMBDA body :
                         IF body.ok THEN [ok |-> TRUE, ty |-> TFunc(ty.ty, body.ty)]
                         ELSE Err)))
    [] exp.k = "Extract" ->
         infer_types([i \in 1..Len(exp.cases) |-> exp.cases[i].result], 1, None, types)
    [] exp.k = "Anno" -> eval_type(exp.anno, types)
    [] exp.k = "Cond" ->
         Bind(infer_type(exp.then, types), LAMBDA then_type :
           IF ~then_type.ok THEN Err
           ELSE Bind(infer_type(exp.else, types), LAMBDA else_type :
                  IF ~else_type.ok THEN Err
                  ELSE [ok |-> TRUE, ty |-> either_type(then_type.ty, else_type.ty)]))
    [] exp.k = "Invoke" ->
         Bind(infer_type(exp.target, types), LAMBDA target :
           IF ~target.ok THEN Err
           ELSE IF target.ty.k = "Func" THEN [ok |-> TRUE, ty |-> target.ty.ret]
           ELSE [ok |-> TRUE, ty |-> TAny])

\* apply_decl_type
apply_decl_type(decl, types) ==
  CASE decl.k = "Let" ->
         Bind(infer_type(decl.exp, types), LAMBDA ty :
           IF ty.ok THEN assign_pat_type(decl.pat, ty.ty, types)
           ELSE [ok |-> FALSE, types |-> types])
    [] decl.k = "Type" ->
         LET ty == eval_type(decl.pat, types)
         IN IF ty.ok THEN [ok |-> TRUE, types |-> add_type(types, decl.id, ty.ty)]
            ELSE [ok |-> FALSE, types |-> types]
    [] decl.k = "Data" ->
         [ok |-> TRUE, types |-> add_datatype_type(types, decl.id, decl.variants)]
    [] OTHER -> [ok |-> TRUE, types |-> types]

\* infer_type (Exp::Scope): for decl in decls { apply_decl_type(decl, &mut child)? }
apply_decls_type(decls, i, types) ==
  IF i > Len(decls) THEN [ok |-> TRUE, types |-> types]
  ELSE Bind(apply_decl_type(decls[i], types),
            LAMBDA r : IF r.ok THEN apply_decls_type(decls, i + 1, r.types) ELSE r)

-----------------------------------------------------------------------------
(* eval.rs: Context *)

Context(path, vs, types) == [path |-> path, vars |-> vs, types |-> types]

\* Context::add_var
add_var(c, id, val, ty) ==
  [c EXCEPT !.vars = insert(@, id, val), !.types = add_var_type(@, id, ty)]

\* Context::add_type
Context_add_type(c, id, ty) == [c EXCEPT !.types = add_type(@, id, ty)]

\* Context::add_datatype
add_datatype(c, id, variants) ==
  LET rc == DataType(id, variants)
      fold[i \in 0..Len(variants)] ==
        IF i = 0 THEN c
        ELSE add_var(fold[i - 1], variants[i], Data(rc, i - 1), TData(rc))
  IN Context_add_type(fold[Len(variants)], id, TData(rc))

\* Context::add_macro
add_macro(c, id) == add_var(c, id, Macro(id), TAny)

\* get_val_type
RECURSIVE get_val_type(_)
get_val_type(val) ==
  CASE val.k = "Index" -> TAny
    [] val.k = "Data" -> TData(val.dt)
    [] val.k = "Tuple" -> TTuple([i \in 1..Len(val.vals) |-> get_val_type(val.vals[i])])
    [] val.k = "Func" -> val.ty
    [] val.k = "Macro" -> TAny
    [] val.k = "State" -> val.ty
    [] val.k = "String" -> TAny
    [] val.k = "Gate" -> TAny

-----------------------------------------------------------------------------
(* types.rs: Type::size, Type::from_index, Type::assign *)

\* Option<usize>
Unknown == [some |-> FALSE]
Some(n) == [some |-> TRUE, n |-> n]

\* Type::size
RECURSIVE size(_)
size(t) ==
  CASE t.k = "Any" -> Unknown
    [] t.k = "Data" -> Some(Len(t.dt.variants))
    [] t.k = "Tuple" ->
         LET fold[i \in 0..Len(t.types)] ==
               IF i = 0 THEN Some(1)
               ELSE IF fold[i - 1].some /\ size(t.types[i]).some
                    THEN Some(fold[i - 1].n * size(t.types[i]).n) ELSE Unknown
         IN fold[Len(t.types)]
    [] t.k = "Concat" ->
         LET fold[i \in 0..Len(t.types)] ==
               IF i = 0 THEN Some(0)
               ELSE IF fold[i - 1].some /\ size(t.types[i]).some
                    THEN Some(fold[i - 1].n + size(t.types[i]).n) ELSE Unknown
         IN fold[Len(t.types)]
    [] t.k = "Func" -> Unknown

\* Type::from_index; Err also stands for the panic of `% size` with size 0
RECURSIVE from_index(_, _)
from_index(t, n) ==
  CASE t.k = "Any" -> [ok |-> TRUE, val |-> Index(n)]
    [] t.k = "Data" -> [ok |-> TRUE, val |-> Data(t.dt, n)]
    [] t.k = "Tuple" ->
         LET total_size[i \in 0..Len(t.types)] ==
               IF i = 0 THEN 1 ELSE total_size[i - 1] * size(t.types[i]).n
             sized == \A i \in 1..Len(t.types) :
                        size(t.types[i]).some /\ size(t.types[i]).n > 0
             vals == [i \in 1..Len(t.types) |->
                        from_index(t.types[i],
                                   (n \div total_size[i - 1]) % size(t.types[i]).n)]
         IN IF ~sized THEN Err
            ELSE IF \E i \in 1..Len(vals) : ~vals[i].ok THEN Err
            ELSE [ok |-> TRUE, val |-> Tuple([i \in 1..Len(vals) |-> vals[i].val])]
    [] t.k = "Concat" -> Err
    [] t.k = "Func" -> Err

\* Type::assign; Err also stands for the panics of unimplemented!() and of
\* build_state on a value that has no state
RECURSIVE assign(_, _)
assign(t, val) ==
  IF t.k = "Any" THEN [ok |-> TRUE, val |-> val]
  ELSE IF t.k = "Tuple" /\ val.k = "Tuple" THEN
    LET vals == [i \in 1..Len(val.vals) |-> assign(t.types[i], val.vals[i])]
    IN IF Len(t.types) # Len(val.vals) THEN Err
       ELSE IF \E i \in 1..Len(vals) : ~vals[i].ok THEN Err
       ELSE [ok |-> TRUE, val |-> Tuple([i \in 1..Len(vals) |-> vals[i].val])]
  ELSE IF t.k = "Concat" THEN
    IF Len(t.types) = 1 /\ build_state_typed(val).ok
    THEN [ok |-> TRUE, val |-> StateVal(build_state_typed(val).state, t.types[1])]
    ELSE Err
  ELSE IF val.k = "Index" THEN from_index(t, val.n)
  ELSE IF val.k = "Data" THEN from_index(t, val.index)
  ELSE IF val.k = "State" THEN
    IF size(t).some /\ size(t).n # Len(val.state) THEN Err
    ELSE [ok |-> TRUE, val |-> StateVal(val.state, t)]
  ELSE Err

\* build_bool
build_bool(val) ==
  CASE val.k = "Index" -> [ok |-> TRUE, b |-> val.n > 0]
    [] val.k = "Data" -> [ok |-> TRUE, b |-> val.index > 0]
    [] val.k = "Tuple" -> [ok |-> TRUE, b |-> Len(val.vals) > 0]
    [] OTHER -> Err

\* eval_decl (Decl::Assert), two States: a.iter().zip(b) stops at the shorter
\* state; the sum of |a - b|^2 is compared with 0.00001
states_eq(a, b) ==
  LET len == IF Len(a) < Len(b) THEN Len(a) ELSE Len(b)
      d == [i \in 1..len |-> absq(CAdd(a[i], CNeg(b[i])))]
  IN 100000 * SumTo(d, len) < 1

\* eval_decl (Decl::Assert): `eq`; two values that are not both States are
\* compared by the derived (structural) PartialEq of RunVal
assert_eq(a, b) ==
  IF a.k = "State" /\ b.k = "State" THEN states_eq(a.state, b.state) ELSE a = b

-----------------------------------------------------------------------------
(* eval.rs: the evaluator.  Contexts are objects: `heap` holds the Context
   values alive during one call and an address stands for a `&Context` or a
   `&mut Context`.  `m` is the machine an operation runs on and returns:
   the heap, whether evaluation is still running (ok = FALSE after a panic)
   and the histories.  A Func value holds its Rc<Context> by value: the Rc is
   made from a fresh clone and is never written again. *)

Machine(c, ls) ==
  [heap |-> <<c>>, ok |-> TRUE, lambdas |-> ls, calls |-> {}, evals |-> {},
   prints |-> <<>>]

\* panic!, unwrap() of an Err, expect() of a None
Panic(m) == [val |-> None, m |-> [m EXCEPT !.ok = FALSE]]

\* a new Context object holding c
alloc(m, c) == [m |-> [m EXCEPT !.heap = Append(@, c)], a |-> Len(m.heap) + 1]

\* a child that is the parent's own object instead of a clone
create_child_shared(m, a) == [m |-> m, a |-> a]

\* Context::create_child: self.clone()
create_child(m, a) == alloc(m, m.heap[a])

RECURSIVE eval_exp(_, _, _)
RECURSIVE eval_exp_match(_, _, _)
RECURSIVE eval_exp_seq(_, _, _, _)
RECURSIVE eval_decl(_, _, _)
RECURSIVE eval_decls(_, _, _, _)
RECURSIVE assign_pat(_, _, _, _)
RECURSIVE assign_pats(_, _, _, _, _)
RECURSIVE invoke_func(_, _, _, _)
RECURSIVE invoke_func_dynamic(_, _, _, _)
RECURSIVE build_gate(_, _)
RECURSIVE gate_cases(_, _, _, _, _, _, _)
RECURSIVE concat_states(_, _, _, _)
RECURSIVE lib_slice(_, _, _)
RECURSIVE lib_import(_, _, _)
RECURSIVE import_eval(_, _, _)
RECURSIVE eval_exp_inline(_, _, _)
RECURSIVE create_ctx_at(_)
RECURSIVE handle(_, _, _, _)

\* assign_pat(pat, val, ctx): ctx is the object at address a; an Err, which
\* every caller unwraps, stops the machine with the bindings made before it
assign_pat(pat, val, a, m) ==
  IF ~m.ok THEN m
  ELSE CASE pat.k = "Any" -> m
         [] pat.k = "Var" ->
              [m EXCEPT !.heap[a] = add_var(@, pat.id, val, get_val_type(val))]
         [] pat.k = "Tuple" /\ val.k = "Tuple" ->
              IF Len(pat.pats) # Len(val.vals) THEN [m EXCEPT !.ok = FALSE]
              ELSE assign_pats(pat.pats, val.vals, 1, a, m)
         \* assign_pat(pat, &eval_type(&anno, ctx.types())?.assign(val.clone())?, ctx)
         [] pat.k = "Anno" ->
              Bind(eval_type(pat.anno, m.heap[a].types), LAMBDA ty :
                IF ~ty.ok THEN [m EXCEPT !.ok = FALSE]
                ELSE Bind(assign(ty.ty, val), LAMBDA v :
                       IF ~v.ok THEN [m EXCEPT !.ok = FALSE]
                       ELSE assign_pat(pat.pat, v.val, a, m)))
         [] OTHER -> [m EXCEPT !.ok = FALSE]

\* pats.iter().zip(vals).map(assign_pat).collect::<Ret<_>>()
assign_pats(pats, vals, i, a, m) ==
  IF i > Len(pats) \/ ~m.ok THEN m
  ELSE Bind(assign_pat(pats[i], vals[i], a, m),
            LAMBDA m1 : assign_pats(pats, vals, i + 1, a, m1))

\* eval_decl(decl, ctx): ctx is the object at address a
eval_decl(decl, a, m) ==
  IF ~m.ok THEN m
  ELSE CASE decl.k = "Let" ->
              Bind(eval_exp(decl.exp, a, m),
                   LAMBDA v : assign_pat(decl.pat, v.val, a, v.m))
         [] decl.k = "Type" ->
              LET ty == eval_type(decl.pat, m.heap[a].types)
              IN IF ty.ok THEN [m EXCEPT !.heap[a] = Context_add_type(@, decl.id, ty.ty)]
                 ELSE [m EXCEPT !.ok = FALSE]
         [] decl.k = "Data" ->
              [m EXCEPT !.heap[a] = add_datatype(@, decl.id, decl.variants)]
         [] decl.k = "Assert" ->
              Bind(eval_exp(decl.expect, a, m), LAMBDA x :
                Bind(eval_exp(decl.result, a, x.m), LAMBDA y :
                  IF ~y.m.ok THEN y.m
                  ELSE IF assert_eq(x.val, y.val) THEN y.m
                  ELSE [y.m EXCEPT !.ok = FALSE]))
         \* println!(":: {}", eval_exp(exp, ctx))
         [] decl.k = "Print" ->
              Bind(eval_exp(decl.exp, a, m), LAMBDA v :
                IF ~v.m.ok THEN v.m
                ELSE [v.m EXCEPT !.prints = Append(@, v.val)])

\* a loop that drops the Ret of eval_decl and goes on
RECURSIVE eval_decls_continue(_, _, _, _)
eval_decls_continue(decls, i, a, m) ==
  IF i > Len(decls) THEN m
  ELSE Bind(eval_decl(decls[i], a, m),
            LAMBDA m1 : eval_decls_continue(decls, i + 1, a, [m1 EXCEPT !.ok = TRUE]))

\* for decl in decls { eval_decl(decl, ctx).unwrap(); }
eval_decls(decls, i, a, m) ==
  IF i > Len(decls) \/ ~m.ok THEN m
  ELSE Bind(eval_decl(decls[i], a, m),
            LAMBDA m1 : eval_decls(decls, i + 1, a, m1))

\* iterate_val: [ok |-> FALSE] for None
iterate_val(val) ==
  CASE val.k = "Index" -> [ok |-> TRUE, vals |-> [i \in 1..val.n |-> Index(i - 1)]]
    [] val.k = "Tuple" -> [ok |-> TRUE, vals |-> val.vals]
    [] OTHER -> Err

\* eval_exp_seq: an Expand element is evaluated and spliced by iterate_val
eval_exp_seq(seq, i, a, m) ==
  IF i > Len(seq) \/ ~m.ok THEN [vals |-> <<>>, m |-> m]
  ELSE IF seq[i].k = "Expand"
  THEN Bind(eval_exp(seq[i].exp, a, m), LAMBDA v :
         IF ~v.m.ok THEN [vals |-> <<>>, m |-> v.m]
         ELSE IF ~iterate_val(v.val).ok THEN [vals |-> <<>>, m |-> Panic(v.m).m]
         ELSE Bind(eval_exp_seq(seq, i + 1, a, v.m), LAMBDA rest :
                [vals |-> iterate_val(v.val).vals \o rest.vals, m |-> rest.m]))
  ELSE Bind(eval_exp(seq[i], a, m), LAMBDA v :
         Bind(eval_exp_seq(seq, i + 1, a, v.m), LAMBDA rest :
           [vals |-> <<v.val>> \o rest.vals, m |-> rest.m]))

\* the amplitudes of the state r.amps / sqrt(r.div2), for the states whose
\* amplitudes are Gaussian integers again
unscale(r) ==
  CASE \E n \in 1..r.div2 :
         /\ n * n = r.div2
         /\ \A i \in 1..Len(r.amps) : r.amps[i][1] % n = 0 /\ r.amps[i][2] % n = 0
       -> LET n == CHOOSE n \in 1..r.div2 : n * n = r.div2
          IN [i \in 1..Len(r.amps) |-> <<r.amps[i][1] \div n, r.amps[i][2] \div n>>]
    [] Len(r.amps) = 0 -> <<>>

\* Gate::combine
gate_combine(self, g) ==
  [i \in 1..(Len(self) * Len(g)) |->
     combine(self[((i - 1) \div Len(g)) + 1], g[((i - 1) % Len(g)) + 1])]

\* the loop of create_extract_gate_typed over the cases from i on, the case
\* expressions evaluated in the object at address a
gate_cases(cs, i, d, ot, min_size, a, m) ==
  IF ~m.ok THEN [m |-> m]
  ELSE IF i > Len(cs) THEN [gate |-> pad_gate(d), ty |-> IF ot = None THEN TAny ELSE ot, m |-> m]
  ELSE IF cs[i].k = "Exp"
  THEN Bind(eval_exp(cs[i].selector, a, m), LAMBDA sel :
         IF ~sel.m.ok THEN [m |-> sel.m]
         ELSE IF ~build_state_typed(sel.val).ok THEN [m |-> Panic(sel.m).m]
         ELSE Bind(eval_exp(cs[i].result, a, sel.m), LAMBDA res :
                IF ~res.m.ok THEN [m |-> res.m]
                ELSE IF ~build_state_typed(res.val).ok THEN [m |-> Panic(res.m).m]
                ELSE gate_cases(cs, i + 1,
                                exp_case(d, build_state(sel.val), build_state(res.val),
                                         min_size),
                                reduce_type(ot, build_state_typed(res.val).ty),
                                min_size, a, res.m)))
  ELSE Bind(eval_exp(cs[i].result, a, m), LAMBDA res :
         IF ~res.m.ok THEN [m |-> res.m]
         ELSE IF ~build_state_typed(res.val).ok THEN [m |-> Panic(res.m).m]
         ELSE gate_cases(cs, i + 1, default_case(d, build_state(res.val)),
                         reduce_type(ot, build_state_typed(res.val).ty),
                         min_size, a, res.m))

\* create_extract_gate_typed(cases, min_input_size, ctx)
create_extract_gate_typed(cs, min_size, a, m) ==
  gate_cases(cs, 1, <<>>, None, min_size, a, m)

\* eval_gate_body(exp, ctx): [some |-> FALSE] for None
eval_gate_body(exp, a, m) ==
  IF exp.k = "Extract"
  THEN Bind(create_extract_gate_typed(exp.cases, 0, a, m), LAMBDA g :
         IF ~g.m.ok THEN [some |-> FALSE, m |-> g.m]
         ELSE [some |-> TRUE, gate |-> g.gate, m |-> g.m])
  ELSE [some |-> FALSE, m |-> m]

\* build_gate(val, ctx): a Func is compiled in the context it captured
build_gate(val, m) ==
  CASE val.k = "Tuple" ->
         LET fold[i \in 0..Len(val.vals)] ==
               IF i = 0 THEN [some |-> TRUE, gate |-> <<get_state(0)>>, m |-> m]
               ELSE IF ~fold[i - 1].some THEN fold[i - 1]
               ELSE Bind(build_gate(val.vals[i], fold[i - 1].m), LAMBDA b :
                      IF ~b.some THEN b
                      ELSE [some |-> TRUE, gate |-> gate_combine(fold[i - 1].gate, b.gate),
                            m |-> b.m])
         IN fold[Len(val.vals)]
    [] val.k = "Func" ->
         Bind(alloc(m, val.ctx), LAMBDA fn_ctx :
           eval_gate_body(val.body, fn_ctx.a, fn_ctx.m))
    [] val.k = "Gate" -> [some |-> TRUE, gate |-> val.gate, m |-> m]
    [] OTHER -> [some |-> FALSE, m |-> m]

\* eval_exp (Exp::Concat): args.iter().map(|e| build_state_typed(eval_exp(e, ctx)))
\* .collect::<Ret<Vec<_>>>().unwrap(), from element i on
concat_states(seq, i, a, m) ==
  IF i > Len(seq) \/ ~m.ok THEN [states |-> <<>>, m |-> m]
  ELSE Bind(eval_exp(seq[i], a, m), LAMBDA v :
         IF ~v.m.ok THEN [states |-> <<>>, m |-> v.m]
         ELSE IF ~build_state_typed(v.val).ok THEN [states |-> <<>>, m |-> Panic(v.m).m]
         ELSE Bind(concat_states(seq, i + 1, a, v.m), LAMBDA rest :
                [states |-> <<build_state_typed(v.val)>> \o rest.states, m |-> rest.m]))

\* the amplitudes of all states in a row
RECURSIVE flat_map(_, _)
flat_map(states, n) ==
  IF n = 0 THEN <<>> ELSE flat_map(states, n - 1) \o states[n].state

\* a Func branch that evaluates the body in a clone of the caller's context
invoke_func_dynamic(func, arg, a, m) ==
  Bind(alloc(m, m.heap[a]), LAMBDA fn_ctx :
    Bind(eval_exp(arg, a, fn_ctx.m), LAMBDA v :
      Bind(assign_pat(func.pat, v.val, fn_ctx.a, v.m), LAMBDA p :
        IF ~p.ok THEN Panic(p)
        ELSE Bind([p EXCEPT !.calls = @ \cup
                     {[func |-> func, arg |-> v.val, seen |-> p.heap[fn_ctx.a]]}],
                  LAMBDA entered : eval_exp(func.body, fn_ctx.a, entered)))))

\* eval_exp (Exp::Invoke), the RunVal::Func branch:
\*   let mut fn_ctx = (*fn_ctx_rc).clone();
\*   assign_pat(&pat, &eval_exp(arg, ctx), &mut fn_ctx).unwrap();
\*   eval_exp(&body, &fn_ctx)
\* `calls` gets the context the body is entered with
invoke_func(func, arg, a, m) ==
  Bind(alloc(m, func.ctx), LAMBDA fn_ctx :
    Bind(eval_exp(arg, a, fn_ctx.m), LAMBDA v :
      Bind(assign_pat(func.pat, v.val, fn_ctx.a, v.m), LAMBDA p :
        IF ~p.ok THEN Panic(p)
        ELSE Bind([p EXCEPT !.calls = @ \cup
                     {[func |-> func, arg |-> v.val, seen |-> p.heap[fn_ctx.a]]}],
                  LAMBDA entered : eval_exp(func.body, fn_ctx.a, entered)))))

\* lib_slice: to_slice_params
to_slice_params(val) ==
  CASE val.k = "Index" -> [ok |-> TRUE, a |-> 0, b |-> val.n]
    [] val.k = "Tuple" ->
         IF /\ Len(val.vals) = 2
            /\ val.vals[1].k = "Index" /\ val.vals[2].k = "Index"
            /\ val.vals[1].n <= val.vals[2].n
         THEN [ok |-> TRUE, a |-> val.vals[1].n, b |-> val.vals[2].n]
         ELSE Err
    [] OTHER -> Err

\* lib_slice: state.chain(repeat(zero)).skip(a).take(b - a)
slice(state, from, to) ==
  [i \in 1..(to - from) |->
     IF from + i <= Len(state) THEN state[from + i] ELSE real(0)]

\* stdlib.rs lib_slice(exp, ctx)
lib_slice(exp, a, m) ==
  IF ~(exp.k = "Tuple" /\ Len(exp.args) = 2) THEN Panic(m)
  ELSE Bind(eval_exp(exp.args[1], a, m), LAMBDA v :
         IF ~v.m.ok THEN v
         ELSE IF ~build_state_typed(v.val).ok THEN Panic(v.m)
         ELSE Bind(eval_exp(exp.args[2], a, v.m), LAMBDA r :
                IF ~r.m.ok THEN r
                ELSE IF ~to_slice_params(r.val).ok THEN Panic(r.m)
                ELSE [val |-> StateVal(slice(build_state(v.val),
                                             to_slice_params(r.val).a,
                                             to_slice_params(r.val).b), TAny),
                      m |-> r.m]))

\* the pieces a scheme is written with
Schemes == {"http:", "https:", "file:"}

\* Regex::new("^[a-z]+:").is_match(path)
is_scheme_path(path) == Len(path) > 0 /\ path[1] \in Schemes

\* resource::with_ext(path, "fqy")
with_ext(path) ==
  IF Len(path) > 0 /\ path[Len(path)] = ".fqy" THEN path ELSE path \o <<".fqy">>

\* Path::join of a relative path
join(base, path) == IF base = <<>> THEN path ELSE base \o <<"/">> \o path

\* PathBuf::pop: the path without its last component
RECURSIVE pop(_)
pop(path) ==
  IF path = <<>> THEN <<>>
  ELSE IF path[Len(path)] = "/" THEN SubSeq(path, 1, Len(path) - 1)
  ELSE pop(SubSeq(path, 1, Len(path) - 1))

\* the working directory of the process
Cwd == <<"cwd">>

\* the modules that can be imported
ModuleNames == {"m", "n", "q"}

\* the text behind a file name or URL, as parser::parse returns it:
\* m.fqy is `x`, n.fqy is `let y = 5 y`, q.fqy is `1: Q`
Module(name) ==
  CASE name = "m" -> ExpScope(<<>>, ExpVar("x"))
    [] name = "n" -> ExpScope(<<Let(PatVar("y"), ExpIndex(5))>>, ExpVar("y"))
    [] name = "q" -> ExpScope(<<>>, ExpAnno(ExpIndex(1), PatVar("Q")))

Url(name) == <<"https:", "//", "host", "/", name, ".fqy">>

\* parser::parse_resource(file): Err when nothing can be loaded
parse_resource(file) ==
  IF \E n \in ModuleNames : file \in {join(Cwd, <<n, ".fqy">>), Url(n)}
  THEN [ok |-> TRUE,
        exp |-> Module(CHOOSE n \in ModuleNames :
                         file \in {join(Cwd, <<n, ".fqy">>), Url(n)})]
  ELSE Err

\* Context::import and Context::import_eval: self is the object at address a.
\* The module's context is self.create_child() for a path with a scheme and
\* stdlib::create_ctx(import_dir) otherwise.
import_eval(a, path, m) ==
  IF is_scheme_path(path)
  THEN Bind(create_child(m, a), LAMBDA child :
         IF ~parse_resource(path).ok THEN Panic(child.m)
         ELSE eval_exp_inline(parse_resource(path).exp, child.a, child.m))
  ELSE Bind(join(m.heap[a].path, with_ext(path)), LAMBDA import_path :
         Bind(create_ctx_at(pop(import_path)), LAMBDA std :
           Bind(alloc([m EXCEPT !.lambdas = @ \cup std.lambdas,
                                !.calls = @ \cup std.calls,
                                !.evals = @ \cup std.evals], std.heap[1]),
                LAMBDA fresh :
                  IF ~parse_resource(import_path).ok THEN Panic(fresh.m)
                  ELSE eval_exp_inline(parse_resource(import_path).exp,
                                       fresh.a, fresh.m))))

\* stdlib.rs lib_import(exp, ctx)
lib_import(exp, a, m) ==
  Bind(eval_exp(exp, a, m), LAMBDA v :
    IF ~v.m.ok THEN v
    ELSE IF v.val.k = "String" THEN import_eval(a, v.val.str, v.m)
    ELSE Panic(v.m))

\* eval_exp (Exp::Invoke), the RunVal::Macro branch: handle(arg, ctx).unwrap()
\* for the macros add_macro binds in create_ctx; of these, import and slice
\* are modelled
handle(id, arg, a, m) ==
  CASE id = "slice" -> lib_slice(arg, a, m)
    [] id = "import" -> lib_import(arg, a, m)

\* eval_exp: match exp { .. }; ctx is the object at address a.  A Scope also
\* reports its child as the declarations left it (`inner`).
eval_exp_match(exp, a, m) ==
  CASE exp.k = "Index" -> [val |-> Index(exp.n), m |-> m]
    [] exp.k = "String" -> [val |-> String(exp.str), m |-> m]
    [] exp.k = "Var" ->
         IF exp.id \in DOMAIN m.heap[a].vars
         THEN [val |-> m.heap[a].vars[exp.id], m |-> m] ELSE Panic(m)
    [] exp.k = "Scope" ->
         Bind(create_child(m, a), LAMBDA child :
           Bind(eval_decls(exp.decls, 1, child.a, child.m), LAMBDA decls :
             Bind(eval_exp(exp.ret, child.a, decls), LAMBDA v :
               [val |-> v.val, m |-> v.m, inner |-> decls.heap[child.a]])))
    \* panic!("No context for expansion")
    [] exp.k = "Expand" -> Panic(m)
    [] exp.k = "Tuple" ->
         Bind(eval_exp_seq(exp.args, 1, a, m),
              LAMBDA s : [val |-> Tuple(s.vals), m |-> s.m])
    [] exp.k = "Concat" ->
         \* a single element that builds a gate is a Gate; otherwise every
         \* element is evaluated to a state and the amplitudes are divided by
         \* sqrt(args.len())
         Bind(IF Len(exp.args) = 1
              THEN Bind(eval_exp(exp.args[1], a, m), LAMBDA v :
                     IF ~v.m.ok THEN [some |-> FALSE, m |-> v.m]
                     ELSE build_gate(v.val, v.m))
              ELSE [some |-> FALSE, m |-> m], LAMBDA g :
           IF ~g.m.ok THEN Panic(g.m)
           ELSE IF g.some THEN [val |-> Gate(g.gate), m |-> g.m]
           ELSE Bind(concat_states(exp.args, 1, a, g.m), LAMBDA c :
                  IF ~c.m.ok THEN Panic(c.m)
                  ELSE [val |-> StateVal(
                                  unscale([amps |-> flat_map(c.states, Len(c.states)),
                                           div2 |-> Len(exp.args)]),
                                  TConcat([i \in 1..Len(c.states) |-> c.states[i].ty])),
                        m |-> c.m]))
    [] exp.k = "Extract" ->
         Bind(eval_exp(exp.arg, a, m), LAMBDA v :
           IF ~v.m.ok THEN v
           ELSE IF ~build_state_typed(v.val).ok THEN Panic(v.m)
           ELSE Bind(create_extract_gate_typed(exp.cases, Len(build_state(v.val)), a, v.m),
                     LAMBDA g :
                  IF ~g.m.ok THEN Panic(g.m)
                  ELSE [val |-> StateVal(unscale(extract(build_state(v.val), g.gate)), g.ty),
                        m |-> g.m]))
    [] exp.k = "Anno" ->
         LET ty == eval_type(exp.anno, m.heap[a].types)
         IN IF ~ty.ok THEN Panic(m)
            ELSE Bind(eval_exp(exp.exp, a, m), LAMBDA v :
                   IF ~v.m.ok THEN v
                   ELSE Bind(assign(ty.ty, v.val), LAMBDA r :
                          IF r.ok THEN [val |-> r.val, m |-> v.m] ELSE Panic(v.m)))
    [] exp.k = "Cond" ->
         Bind(eval_exp(exp.cond, a, m), LAMBDA c :
           IF ~c.m.ok THEN c
           ELSE IF ~build_bool(c.val).ok THEN Panic(c.m)
           ELSE eval_exp(IF build_bool(c.val).b THEN exp.then ELSE exp.else, a, c.m))
    [] exp.k = "Lambda" ->
         Bind(infer_type(exp, m.heap[a].types), LAMBDA ty :
           IF ~ty.ok THEN Panic(m)
           ELSE [val |-> Func(m.heap[a], exp.pat, exp.body, ty.ty),
                 m |-> [m EXCEPT !.lambdas = @ \cup
                          {[pat |-> exp.pat, body |-> exp.body, ctx |-> m.heap[a]]}]])
    [] exp.k = "Invoke" ->
         Bind(eval_exp(exp.target, a, m), LAMBDA target :
           IF ~target.m.ok THEN target
           ELSE IF target.val.k = "Func"
                THEN invoke_func(target.val, exp.arg, a, target.m)
           ELSE IF target.val.k = "Macro"
                THEN handle(target.val.id, exp.arg, a, target.m)
           ELSE IF target.val.k = "Gate"
                THEN Bind(eval_exp(exp.arg, a, target.m), LAMBDA v :
                       IF ~v.m.ok THEN v
                       ELSE IF ~build_state_typed(v.val).ok THEN Panic(v.m)
                       ELSE [val |-> StateVal(unscale(extract(build_state(v.val),
                                                              target.val.gate)),
                                              build_state_typed(v.val).ty),
                             m |-> v.m])
           \* any other target: the argument state is built, then
           \* build_gate(..).expect("Cannot invoke ..")
           ELSE Bind(eval_exp(exp.arg, a, target.m), LAMBDA v :
                  IF ~v.m.ok THEN v
                  ELSE IF ~build_state_typed(v.val).ok THEN Panic(v.m)
                  ELSE Bind(build_gate(target.val, v.m), LAMBDA g :
                         IF ~g.m.ok \/ ~g.some THEN Panic(g.m)
                         ELSE [val |-> StateVal(unscale(extract(build_state(v.val),
                                                                g.gate)), TAny),
                               m |-> g.m])))

\* eval_exp(exp, ctx): every call that returns is entered in `evals` with
\* the object ctx before and after it
eval_exp(exp, a, m) ==
  IF ~m.ok THEN [val |-> None, m |-> m]
  ELSE Bind(eval_exp_match(exp, a, m), LAMBDA r :
         IF ~r.m.ok THEN [val |-> None, m |-> r.m]
         ELSE [val |-> r.val,
               m |-> [r.m EXCEPT !.evals = @ \cup
                        {[exp |-> exp, before |-> m.heap[a],
                          inner |-> IF exp.k = "Scope" THEN r.inner ELSE r.m.heap[a],
                          after |-> r.m.heap[a]]}]])

\* an eval_exp_inline that runs a Scope like eval_exp does
eval_exp_inline_child(exp, a, m) == eval_exp(exp, a, m)

\* eval_exp_inline(exp, ctx): ctx is the object at address a
eval_exp_inline(exp, a, m) ==
  IF exp.k = "Scope"
  THEN Bind(eval_decls(exp.decls, 1, a, m), LAMBDA decls : eval_exp(exp.ret, a, decls))
  ELSE eval_exp(exp, a, m)

-----------------------------------------------------------------------------
(* stdlib.rs create_ctx: the context the REPL starts from *)

MacroNames ==
  <<"import", "sup", "phf", "gate", "inv", "len", "slice", "weighted",
    "fourier", "repeat", "measure">>

\* the prelude source of create_ctx, as parser::parse returns it
Prelude ==
  ExpScope(
    <<DeclData("Bool", <<"F", "T">>),
      DeclData("Axis", <<"X", "Y", "Z">>),
      Let(PatTuple(<<PatVar("^"), PatVar("~"), PatVar("#")>>),
          ExpTuple(<<ExpVar("sup"), ExpVar("phf"), ExpVar("measure")>>)),
      Let(PatVar(">>"), ExpLambda(PatTuple(<<PatVar("x"), PatVar("f")>>),
                                  ExpInvoke(ExpVar("f"), ExpVar("x")))),
      Let(PatVar("<<"), ExpLambda(PatTuple(<<PatVar("f"), PatVar("x")>>),
                                  ExpInvoke(ExpVar("f"), ExpVar("x")))),
      Let(PatVar("."), ExpLambda(PatTuple(<<PatVar("f"), PatVar("g")>>),
            ExpLambda(PatVar("a"),
                      ExpInvoke(ExpVar("g"), ExpInvoke(ExpVar("f"), ExpVar("a")))))),
      Let(PatVar(".."), ExpLambda(PatVar("r"),
            ExpLambda(PatVar("s"),
                      ExpInvoke(ExpVar("slice"),
                                ExpTuple(<<ExpVar("s"), ExpVar("r")>>)))))>>,
    ExpTuple(<<>>))

\* create_ctx(path): Context::new, the add_macro calls, eval_exp_inline of
\* the prelude
create_ctx_at(path) ==
  LET macros[i \in 0..Len(MacroNames)] ==
        IF i = 0 THEN Context(path, EmptyMap, EmptyMap)
        ELSE add_macro(macros[i - 1], MacroNames[i])
  IN Bind(Machine(macros[Len(MacroNames)], {}),
          LAMBDA m : eval_exp_inline(Prelude, 1, m).m)

\* main.rs: stdlib::create_ctx(env::current_dir())
create_ctx == create_ctx_at(Cwd)

-----------------------------------------------------------------------------
(* SpecEval: the REPL of main.rs, one eval_exp_inline call per line *)

LetX(n) == Let(PatVar("x"), ExpIndex(n))
\* fn f(a) = (a, x)
FnF == Let(PatVar("f"), ExpLambda(PatVar("a"), ExpTuple(<<ExpVar("a"), ExpVar("x")>>)))
\* fn g(a, _) = f(a)
FnG == Let(PatVar("g"), ExpLambda(PatTuple(<<PatVar("a"), PatAny>>),
                                  ExpInvoke(ExpVar("f"), ExpVar("a"))))
CallF(arg) == ExpInvoke(ExpVar("f"), arg)
Unit == ExpTuple(<<>>)
\* { data Bit = A | B; type U = Bit; let y = A; y }
Block ==
  ExpScope(<<DeclData("Bit", <<"A", "B">>), DeclType("U", PatVar("Bit")),
             Let(PatVar("y"), ExpVar("A"))>>, ExpVar("y"))

\* the lines read, as parser::parse returns them (a Scope), and expressions
\* that are not a Scope for eval_exp_inline's other branch
Lines ==
  { ExpScope(<<LetX(0)>>, Unit),
    ExpScope(<<LetX(1)>>, Unit),
    ExpScope(<<FnF>>, Unit),
    ExpScope(<<FnG>>, Unit),
    ExpScope(<<>>, CallF(ExpIndex(1))),
    ExpScope(<<>>, ExpInvoke(ExpVar("g"), ExpTuple(<<ExpIndex(0), ExpVar("T")>>))),
    ExpScope(<<>>, ExpInvoke(ExpVar(">>"), ExpTuple(<<ExpVar("x"), ExpVar("f")>>))),
    ExpScope(<<>>, ExpScope(<<LetX(1), Let(PatVar("y"), ExpIndex(1))>>, CallF(ExpVar("y")))),
    ExpScope(<<>>, Block),
    ExpScope(<<DeclData("Bit", <<"O", "I">>)>>, ExpVar("I")),
    ExpScope(<<Let(PatTuple(<<PatVar("x"), PatVar("y")>>),
                   ExpTuple(<<ExpIndex(1), ExpVar("F")>>))>>, Unit),
    ExpScope(<<Let(PatTuple(<<PatVar("x"), PatVar("y")>>), ExpIndex(0))>>, Unit),
    ExpScope(<<LetX(0), FnF, LetX(1)>>, CallF(ExpVar("x"))),
    ExpScope(<<Let(PatVar("x"), Block)>>, ExpVar("x")),
    ExpVar("x"),
    CallF(ExpIndex(0)),
    Block }

InitEval ==
  /\ pc = "repl"
  /\ args = None /\ ret = None
  /\ IdleGate
  /\ \E m \in {create_ctx} :
       /\ ctx = m.heap[1]
       /\ lambdas = m.lambdas
  /\ line = None /\ calls = {} /\ evals = {} /\ nlines = 0

\* main (repl): Ok(line) => eval::eval_exp_inline(&exp, &mut ctx); a panic
\* ends the process
Eval(exp) ==
  /\ pc = "repl" /\ nlines < MaxLines
  /\ \E r \in {eval_exp_inline(exp, 1, Machine(ctx, lambdas))} :
        IF r.m.ok
        THEN /\ pc' = "repl"
             /\ ctx' = r.m.heap[1]
             /\ ret' = r.val
             /\ lambdas' = r.m.lambdas
             /\ calls' = r.m.calls
             /\ evals' = r.m.evals
        ELSE /\ pc' = "panicked"
             /\ UNCHANGED <<ctx, ret, lambdas, calls, evals>>
  /\ line' = exp
  /\ nlines' = nlines + 1
  /\ UNCHANGED <<args, gateVars>>

\* main (repl): Err(ReadlineError::Interrupted | Eof) => break
Quit ==
  /\ pc = "repl"
  /\ pc' = "exit"
  /\ UNCHANGED <<kernelVars, gateVars, evalVars>>

NextEval == (\E exp \in Lines : Eval(exp)) \/ Quit
SpecEval == InitEval /\ [][NextEval]_vars

\* the names a pattern binds and the values assign_pat gives them
RECURSIVE Params(_, _)
Params(pat, val) ==
  CASE pat.k = "Any" -> {}
    [] pat.k = "Var" -> {<<pat.id, val>>}
    [] pat.k = "Tuple" ->
         UNION {Params(pat.pats[i], val.vals[i]) : i \in 1..Len(pat.pats)}

\* context c with the parameter bindings ps laid over it
Overlay(c, ps) ==
  LET ids == {p[1] : p \in ps}
      bound(id) == (CHOOSE p \in ps : p[1] = id)[2]
      keyed(key) == CHOOSE p \in ps : key = "@" \o p[1]
  IN [path |-> c.path,
      vars |-> [n \in DOMAIN c.vars \cup ids |->
                  IF n \in ids THEN bound(n) ELSE c.vars[n]],
      types |-> [n \in DOMAIN c.types \cup {"@" \o id : id \in ids} |->
                  IF \E p \in ps : n = "@" \o p[1]
                  THEN get_val_type(keyed(n)[2]) ELSE c.types[n]]]

\* C8: whenever a Func is invoked, the context its body is evaluated in is the
\* context of some evaluation of its Lambda, as it was at that moment, with
\* the parameter bindings of assign_pat laid over it: neither later bindings
\* of the defining scope nor the caller's bindings are in it.
C8_ClosureSeesSnapshot ==
  \A c \in calls :
    \E l \in lambdas :
      /\ l.pat = c.func.pat /\ l.body = c.func.body
      /\ c.seen = Overlay(l.ctx, Params(l.pat, c.arg))

\* let x = 0; fn f(a) = (a, x); let x = 1; f(x) has returned (1, 0): the body
\* saw the x of the Lambda's evaluation, the context now holds the later one
C8_Witness ==
  /\ pc = "repl"
  /\ line = ExpScope(<<LetX(0), FnF, LetX(1)>>, CallF(ExpVar("x")))
  /\ ret = Tuple(<<Index(1), Index(0)>>)
  /\ ctx.vars["x"] = Index(1)
  /\ \E c \in calls : c.seen.vars["x"] = Index(0) /\ c.seen.vars["a"] = Index(1)

\* C9: every eval_exp call leaves the context it was given as it was: what a
\* Scope's declarations bind (variables, types, data variants) is in the
\* Scope's child only.
C9_EvalExpLeavesContext ==
  \A e \in evals : e.after = e.before

\* a Scope has been evaluated whose child held a data type, a type alias and
\* a variable that the context it was evaluated in never had
C9_Witness ==
  /\ pc = "repl"
  /\ \E e \in evals :
       /\ e.exp = Block
       /\ {"A", "B", "y"} \subseteq DOMAIN e.inner.vars
       /\ {"Bit", "U", "@y"} \subseteq DOMAIN e.inner.types
       /\ {"A", "B", "y"} \cap DOMAIN e.after.vars = {}
       /\ {"Bit", "U", "@y"} \cap DOMAIN e.after.types = {}
  /\ {"A", "B", "y"} \cap DOMAIN ctx.vars = {}

\* the variable names a pattern and a sequence of declarations bind
RECURSIVE PatNames(_)
PatNames(pat) ==
  CASE pat.k = "Any" -> {}
    [] pat.k = "Var" -> {pat.id}
    [] pat.k = "Tuple" -> UNION {PatNames(pat.pats[i]) : i \in 1..Len(pat.pats)}

DeclNames(decl) ==
  CASE decl.k = "Let" -> PatNames(decl.pat)
    [] decl.k = "Data" -> {decl.variants[i] : i \in 1..Len(decl.variants)}
    [] OTHER -> {}

Bound(decls) == UNION {DeclNames(decls[i]) : i \in 1..Len(decls)}

\* C10: a REPL call on a top-level Scope keeps every binding its declarations
\* do not rebind and leaves the names they bind bound (a literal or a data
\* variant bound last is the value a later call reads); a call on any other
\* expression leaves the context as it was.
C10_ReplBindingsPersist ==
  [][(pc' = "repl" /\ nlines' = nlines + 1) =>
       IF line'.k = "Scope"
       THEN /\ \A n \in DOMAIN ctx.vars \ Bound(line'.decls) :
                 n \in DOMAIN ctx'.vars /\ ctx'.vars[n] = ctx.vars[n]
            /\ Bound(line'.decls) \subseteq DOMAIN ctx'.vars
            /\ \A i \in 1..Len(line'.decls) :
                 LET d == line'.decls[i]
                     later == UNION {DeclNames(line'.decls[j]) :
                                       j \in (i + 1)..Len(line'.decls)}
                 IN /\ (d.k = "Let" /\ d.pat.k = "Var" /\ d.exp.k = "Index"
                          /\ d.pat.id \notin later)
                        => ctx'.vars[d.pat.id] = Index(d.exp.n)
                    /\ d.k = "Data" =>
                         \A v \in 1..Len(d.variants) :
                           d.variants[v] \notin later =>
                             ctx'.vars[d.variants[v]] =
                               Data(DataType(d.id, d.variants), v - 1)
            /\ line'.ret.k = "Var" => ret' = ctx'.vars[line'.ret.id]
       ELSE /\ ctx' = ctx
            /\ line'.k = "Var" => ret' = ctx.vars[line'.id]]_vars

\* the third call, f(1), has read the x and the f that two earlier calls bound
C10_Witness ==
  /\ pc = "repl" /\ nlines = 3
  /\ line = ExpScope(<<>>, CallF(ExpIndex(1)))
  /\ ret = Tuple(<<Index(1), Index(0)>>)
  /\ ctx.vars["x"] = Index(0)

-----------------------------------------------------------------------------
(* SpecProgram: main.rs `eval`, one eval_exp call on a parsed program *)

DataDecls ==
  { DeclData("Bit", <<"O", "I">>), DeclData("Bit", <<"I", "O">>),
    DeclData("Bin", <<"O", "I">>), DeclData("Bit", <<"O", "I", "U">>) }

\* data ..; let a = <variant i>; data ..; assert a == <variant i>
TwiceAsserted(d1, d2, i) ==
  ExpScope(<<d1, Let(PatVar("a"), ExpVar(d1.variants[i])), d2,
             DeclAssert(ExpVar("a"), ExpVar(d2.variants[i]))>>, ExpVar("a"))

\* data ..; let a = <variant i>; data ..; \x -> if x then a else <variant i>
TwiceInferred(d1, d2, i) ==
  ExpScope(<<d1, Let(PatVar("a"), ExpVar(d1.variants[i])), d2>>,
           ExpLambda(PatVar("x"),
                     ExpCond(ExpVar("x"), ExpVar("a"), ExpVar(d2.variants[i]))))

AssertPrograms == {TwiceAsserted(d1, d2, i) : d1 \in DataDecls, d2 \in DataDecls, i \in 1..2}
InferPrograms == {TwiceInferred(d1, d2, i) : d1 \in DataDecls, d2 \in DataDecls, i \in 1..2}

\* <value>: <type>
AnnoPrograms ==
  {ExpScope(<<>>, ExpAnno(e, anno)) :
     e \in {ExpIndex(n) : n \in 0..4} \cup {ExpVar(id) : id \in {"F", "T", "X", "Y", "Z"}},
     anno \in {PatAny, PatVar("Bool"), PatVar("Axis"),
               PatTuple(<<PatVar("Bool"), PatVar("Bool")>>),
               PatTuple(<<PatVar("Axis"), PatVar("Bool")>>)}}

\* slice(<value>, n) and slice(<value>, (a, b))
SlicePrograms ==
  {ExpScope(<<>>, ExpInvoke(ExpVar("slice"), ExpTuple(<<e, r>>))) :
     e \in {ExpIndex(1), ExpVar("F"), ExpVar("T"), ExpVar("Z")},
     r \in {ExpIndex(n) : n \in 0..3}
          \cup {ExpTuple(<<ExpIndex(x), ExpIndex(y)>>) : x \in 0..3, y \in 0..3}}

\* let a = slice(x, m); let b = slice(y, n); assert a == b; (a, b)
StateAsserted(x, m, y, n) ==
  ExpScope(<<Let(PatVar("a"), ExpInvoke(ExpVar("slice"),
                                        ExpTuple(<<ExpVar(x), ExpIndex(m)>>))),
             Let(PatVar("b"), ExpInvoke(ExpVar("slice"),
                                        ExpTuple(<<ExpVar(y), ExpIndex(n)>>))),
             DeclAssert(ExpVar("a"), ExpVar("b"))>>,
           ExpTuple(<<ExpVar("a"), ExpVar("b")>>))

StateAssertPrograms ==
  {StateAsserted(x, m, y, n) : x, y \in {"F", "T", "Z"}, m, n \in 1..3}

\* let x = 7; data Q = A | B; let r = import(path); ret
Importer(path, e) ==
  ExpScope(<<Let(PatVar("x"), ExpIndex(7)),
             DeclData("Q", <<"A", "B">>),
             Let(PatVar("r"), ExpInvoke(ExpVar("import"), ExpString(path)))>>,
           e)

\* the ways a module is named: relative with or without extension, by URL
PathsOf(name) == {<<name>>, <<name, ".fqy">>, Url(name)}

ImportPrograms ==
  {Importer(path, e) :
     path \in UNION {PathsOf(n) : n \in ModuleNames \cup {"none"}},
     e \in {ExpVar("r"), ExpVar("y"), ExpTuple(<<ExpVar("x"), ExpVar("r")>>)}}

Programs ==
  AssertPrograms \cup InferPrograms \cup AnnoPrograms \cup SlicePrograms
    \cup StateAssertPrograms \cup ImportPrograms

InitProgram ==
  /\ pc = "load"
  /\ args = None /\ ret = None
  /\ IdleGate
  /\ \E m \in {create_ctx} :
       /\ ctx = m.heap[1]
       /\ lambdas = m.lambdas
  /\ calls = {} /\ evals = {} /\ nlines = 0
  /\ line \in Programs

\* main (eval): do_eval: eval::eval_exp(&module.exp, &ctx); a panic ends the
\* process
Run ==
  /\ pc = "load"
  /\ \E r \in {eval_exp(line, 1, Machine(ctx, lambdas))} :
        IF r.m.ok
        THEN /\ pc' = "done"
             /\ ctx' = r.m.heap[1]
             /\ ret' = r.val
             /\ lambdas' = r.m.lambdas
             /\ calls' = r.m.calls
             /\ evals' = r.m.evals
        ELSE /\ pc' = "panicked"
             /\ UNCHANGED <<ctx, ret, lambdas, calls, evals>>
  /\ UNCHANGED <<args, gateVars, line, nlines>>

NextProgram == Run
SpecProgram == InitProgram /\ [][NextProgram]_vars

\* C11: two Data declarations give distinct data types even when their names
\* and variant lists are the same: an Assert of a variant of the first against
\* the corresponding variant of the second fails, and either_type of their
\* two Type::Data is Any.
C11_DataTypesNominal ==
  /\ line \in AssertPrograms => pc # "done"
  /\ (line \in InferPrograms /\ pc = "done") => ret.ty.ret = TAny

\* every Data(dt, i) in a value has i below the number of variants of dt
RECURSIVE InRange(_)
InRange(val) ==
  CASE val.k = "Data" -> val.index < Len(val.dt.variants)
    [] val.k = "Tuple" -> \A i \in 1..Len(val.vals) : InRange(val.vals[i])
    [] OTHER -> TRUE

\* C12: every Data(dt, i) that evaluation returns, also through an annotation
\* (Type::assign, Type::from_index), has i smaller than the number of
\* variants of dt.
C12_DataIndexInRange ==
  pc = "done" => InRange(ret)

\* every State(v, t) in a value has at least one amplitude
RECURSIVE NonEmptyStates(_)
NonEmptyStates(val) ==
  CASE val.k = "State" -> Len(val.state) >= 1
    [] val.k = "Tuple" -> \A i \in 1..Len(val.vals) : NonEmptyStates(val.vals[i])
    [] OTHER -> TRUE

\* C13: every State(v, t) that evaluation returns, also from slice for every
\* range it accepts, has at least one amplitude.
C13_StateNonEmpty ==
  pc = "done" => NonEmptyStates(ret)

\* the squared difference of two states over all indices of the longer one,
\* the shorter right-padded with zeros, is below the tolerance 0.00001
padded_eq(a, b) ==
  LET len == Max(Len(a), Len(b))
      d == [i \in 1..len |-> absq(CAdd(pad(a, len)[i], CNeg(pad(b, len)[i])))]
  IN 100000 * SumTo(d, len) < 1

\* C14: an Assert on two States succeeds only if the squared difference over
\* all indices of the longer state, the shorter right-padded with zeros, is
\* below the tolerance.
C14_AssertPadsShorter ==
  (line \in StateAssertPrograms /\ pc = "done")
    => padded_eq(ret.vals[1].state, ret.vals[2].state)

\* the importers of a module that reads a variable (m) or a type (q) bound only
\* by the importer, and the importers that read the module's binding y
ReadsImporter ==
  {Importer(path, e) : path \in PathsOf("m") \cup PathsOf("q"),
                       e \in {ExpVar("r"), ExpTuple(<<ExpVar("x"), ExpVar("r")>>)}}
ReadsModule ==
  {Importer(path, ExpVar("y")) : path \in UNION {PathsOf(n) : n \in ModuleNames}}

\* C15: for a relative path and for a path with a URL scheme alike, no variable
\* or type of the importer is visible to the imported module, and no binding of
\* the module appears in the importer: a module that reads the importer's x or
\* Q does not evaluate, nor does an importer that reads the module's y.
C15_ImportIsolated ==
  line \in ReadsImporter \cup ReadsModule => pc # "done"

-----------------------------------------------------------------------------
(* SpecIdentity: Exp::Extract of a state with the identity case table *)

\* the longest state the identity table is built for
MaxDim == 3

\* { 0 => 0, 1 => 1, .. } with n cases
identity_table(n) == [i \in 1..n |-> CaseExp(Index(i - 1), Index(i - 1))]

\* Exp::Extract: the argument is evaluated to a state, then the table is
\* compiled with min_input_size = state.len()
InitIdentity ==
  /\ pc = "cases"
  /\ \E v \in Vectors(Amps, MaxDim) :
       /\ Len(v) > 0
       /\ args = StateVal(v, TAny)
       /\ cases = identity_table(Len(v))
       /\ min_input_size = Len(v)
  /\ dims = <<>>
  /\ output_type = None
  /\ next_case = 0
  /\ ret = None
  /\ IdleEval

NextIdentity ==
  \/ StepExp
  \/ Finish
  \/ Apply(args)
SpecIdentity == InitIdentity /\ [][NextIdentity]_vars

\* multiplication of every amplitude by the integer n
Times(n, v) == [i \in 1..Len(v) |-> <<n * v[i][1], n * v[i][2]>>]

\* the state r.amps / sqrt(r.div2) is the state v
SameState(r, v) ==
  /\ Len(r.amps) = Len(v)
  /\ r.div2 > 0
  /\ \E n \in 1..r.div2 : n * n = r.div2 /\ r.amps = Times(n, v)

\* C16: for every state v, State::extract of v with the gate built from the
\* identity case table {i => Index(i) for i in 0..|v|-1} returns v itself.
C16_IdentityExtract ==
  pc = "applied" => SameState(ret.out, args.state)

-----------------------------------------------------------------------------
(* SpecSeed: the same measurements evaluated twice, each evaluation in a
   context of its own made by stdlib::create_ctx with the same arguments.
   create_ctx takes the path alone and a Context holds path, vars and types:
   measure draws from rand::thread_rng(), which no argument determines. *)

\* the measurements one evaluation makes
MaxMeasures == 2

InitSeed ==
  /\ pc = "run"
  /\ args \in MeasureInputs
  /\ ret = <<<<>>, <<>>>>
  /\ ctx = <<create_ctx.heap[1], create_ctx.heap[1]>>
  /\ IdleGate
  /\ line = None /\ lambdas = {} /\ calls = {} /\ evals = {} /\ nlines = 0

\* evaluation `run` measures the state: wc.sample(&mut thread_rng())
MeasureRun(run, undef, i) ==
  /\ pc = "run"
  /\ Len(ret[run]) < MaxMeasures
  /\ LET weights == [j \in 1..Len(args.amps) |-> weight(args.amps[j], args.div2, undef)]
         total == running_total(weights, Len(weights))
     IN IF Len(weights) = 0 \/ total = Overflow \/ IsZero32(total)
        THEN pc' = "panic" /\ ret' = ret
        ELSE /\ i \in 1..Len(weights)
             /\ ~IsZero32(weights[i])
             /\ pc' = pc
             /\ ret' = [ret EXCEPT ![run] = Append(@, i - 1)]
  /\ UNCHANGED <<args, gateVars, evalVars>>

NextSeed ==
  \E run \in 1..2 : \E undef \in UndefCast : \E i \in 1..MaxLen + 1 :
    MeasureRun(run, undef, i)
SpecSeed == InitSeed /\ [][NextSeed]_vars

\* C17: two evaluations of the same program in contexts created with the same
\* random source return the same sequence of measurement outcomes.
C17_SameSourceSameOutcomes ==
  (ctx[1] = ctx[2] /\ Len(ret[1]) = Len(ret[2])) => ret[1] = ret[2]

-----------------------------------------------------------------------------
(* SpecPower: Gate::power(p) for p = 1/q, and the gate it returns applied
   twice to a basis state.  A gate of the model is the list of its columns
   with integer amplitudes and one scale: [cols, div2] stands for the columns
   cols / sqrt(div2).  State::extract gives the same state when the state or
   all columns of the gate are multiplied by one positive number, so extract
   is applied to the integer amplitudes. *)

\* the largest q of a power 1/q
MaxRoot == 3

\* not = {F => T, T => F} and the gate {F => F, T => ~T}
NotGate == <<<<real(0), real(1)>>, <<real(1), real(0)>>>>
FlipGate == <<<<real(1), real(0)>>, <<real(0), real(0 - 1)>>>>

CConj(x) == <<x[1], 0 - x[2]>>

\* Gate::width
width(g) == MaxColumn(g, Len(g))

\* Gate::inverse: dims[i][k] = conj(self[k][i]), 0 where self[k] is too short
inverse(g) ==
  [i \in 1..width(g) |->
     [n \in 1..Len(g) |-> IF i <= Len(g[n]) THEN CConj(g[n][i]) ELSE real(0)]]

\* Gate::extract: every column of self goes through g.  The columns returned
\* share one scale in every case the model reaches.
gate_extract(self, g) ==
  LET states == [i \in 1..Len(self) |-> extract(self[i], g)]
  IN IF \A i \in 1..Len(states) : states[i].div2 = states[1].div2
     THEN [cols |-> [i \in 1..Len(states) |-> states[i].amps], div2 |-> states[1].div2]
     ELSE None

\* zgeev(RowMajor, 'N', 'V') of mat[i][j] = self[i][j] for a real symmetric
\* gate with eigenvalues 1 and -1: eigenvalues vals and right eigenvectors, the
\* columns of the matrix whose rows are vecs / sqrt(div2), each of norm 1.
\* LAPACK fixes neither the order of the eigenvalues nor the sign of a vector.
zgeev(self) ==
  {e \in [vals : [1..2 -> {0 - 1, 1}],
          vecs : [1..2 -> [1..2 -> {0 - 1, 0, 1}]],
          div2 : {1, 2}] :
     /\ \A c \in 1..2 : e.vecs[1][c] * e.vecs[1][c] + e.vecs[2][c] * e.vecs[2][c] = e.div2
     /\ \A c \in 1..2 : \A i \in 1..2 :
          self[i][1][1] * e.vecs[1][c] + self[i][2][1] * e.vecs[2][c]
            = e.vals[c] * e.vecs[i][c]
     /\ e.vecs[1][1] * e.vecs[2][2] # e.vecs[1][2] * e.vecs[2][1]}

\* Gate::power(p) for p = 1/q, with e what zgeev returned: diag[i][i] is
\* vals[i] * p, written here q times as large
power(self, q, e) ==
  IF q = 1 THEN [cols |-> self, div2 |-> 1]
  ELSE LET dim == Max(Len(self), width(self))
           vecs == [i \in 1..dim |-> [j \in 1..dim |-> real(e.vecs[i][j])]]
           ivecs == inverse(vecs)
           diag == [i \in 1..dim |->
                      [j \in 1..dim |-> IF j = i THEN real(e.vals[i]) ELSE real(0)]]
       IN gate_extract(gate_extract(ivecs, diag).cols, vecs)

InitPower ==
  /\ pc = "call"
  /\ args \in [gate : {NotGate, FlipGate}, q : 1..MaxRoot, index : 0..1]
  /\ ret = None
  /\ IdleGate /\ IdleEval

\* h = power(g, 1/q)
Power(e) ==
  /\ pc = "call"
  /\ ret' = [eigen |-> IF args.q = 1 THEN None ELSE e,
             h |-> power(args.gate, args.q, e), once |-> None, twice |-> None]
  /\ pc' = "powered"
  /\ UNCHANGED <<args, gateVars, evalVars>>

\* h(x) for the basis state x of F or T (Exp::Invoke of a Gate)
InvokeOnce ==
  /\ pc = "powered"
  /\ ret' = [ret EXCEPT !.once = extract(build_state(Data(Bool, args.index)), ret.h.cols)]
  /\ pc' = "once"
  /\ UNCHANGED <<args, gateVars, evalVars>>

\* h(h(x))
InvokeTwice ==
  /\ pc = "once"
  /\ ret' = [ret EXCEPT !.twice = extract(ret.once.amps, ret.h.cols)]
  /\ pc' = "twice"
  /\ UNCHANGED <<args, gateVars, evalVars>>

NextPower ==
  \/ \E e \in zgeev(args.gate) : Power(e)
  \/ InvokeOnce
  \/ InvokeTwice
SpecPower == InitPower /\ [][NextPower]_vars

\* C18: for the NOT gate g, h = power(g, 1/2) applied twice to a basis state
\* gives the state that g applied once gives.
C18_HalfPowerIsSquareRoot ==
  (pc = "twice" /\ args.gate = NotGate /\ args.q = 2)
    => SameState(ret.twice, extract(build_state(Data(Bool, args.index)), args.gate).amps)

-----------------------------------------------------------------------------
(* create_extract_gate_typed on the tables without a Default case *)

NoDefault == \A c \in 1..Len(cases) : cases[c].k = "Exp"

(* C19: for a case table with no Default case, column i of the gate returned
   is the sum over all Exp cases of (selector amplitude at i) times (result
   vector), zero-padded to a common length; the gate has max(min_input_size,
   longest selector) columns when the table has at least one Exp case, the
   columns touched by no selector are all zero, and all columns have the same
   length. *)
C19_ExpColumnsAreSums ==
  (pc \in {"built", "applied"} /\ NoDefault) =>
    /\ Len(cases) > 0 =>
         Len(ret.gate) = Max(min_input_size, LongestSelector(Len(cases)))
    /\ \A i \in 1..Len(ret.gate) :
         /\ Len(ret.gate[i]) = LongestResult(Len(cases))
         /\ \A j \in 1..Len(ret.gate[i]) : ret.gate[i][j] = ExpSum(Len(cases), i, j)
         /\ i > LongestSelector(Len(cases)) =>
              \A j \in 1..Len(ret.gate[i]) : ret.gate[i][j] = real(0)

\* {0 => Z, 0 => 0} on a three-dimensional input: column 0 holds the sum of
\* both results, the columns 1 and 2 no selector reaches are zero
C19_Witness ==
  /\ pc = "built" /\ min_input_size = 3
  /\ cases = <<CaseExp(Index(0), Data(Axis, 2)), CaseExp(Index(0), Index(0))>>
  /\ ret.gate = <<<<real(1), real(0), real(1)>>,
                  <<real(0), real(0), real(0)>>,
                  <<real(0), real(0), real(0)>>>>

-----------------------------------------------------------------------------
(* SpecSize: Type::size on the types of a small grammar *)

LeafTypes == {TAny, TData(Bool), TData(Axis), TFunc(TAny, TData(Bool))}

\* the children of a Tuple or Concat: a leaf, or a Tuple or Concat with no or
\* two parts
PartTypes ==
  LeafTypes \cup {TTuple(<<>>), TConcat(<<>>),
                  TTuple(<<TData(Bool), TData(Axis)>>),
                  TConcat(<<TData(Bool), TData(Axis)>>)}

SizeInputs ==
  LeafTypes \cup {TTuple(ts) : ts \in Vectors(PartTypes, MaxLen)}
            \cup {TConcat(ts) : ts \in Vectors(PartTypes, MaxLen)}

InitSize ==
  /\ pc = "call"
  /\ args \in SizeInputs
  /\ ret = None
  /\ IdleGate /\ IdleEval

Size ==
  /\ pc = "call"
  /\ ret' = size(args)
  /\ pc' = "done"
  /\ UNCHANGED <<args, gateVars, evalVars>>

NextSize == Size
SpecSize == InitSize /\ [][NextSize]_vars

\* the dimension of a type: the sum of the parts of a Concat and 1 when it has
\* none, the product of the parts of a Tuple and 1 when it has none, the number
\* of variants of a Data, unknown for Any, for Func and with an unknown part
RECURSIVE Dimension(_)
Dimension(t) ==
  CASE t.k = "Data" -> Some(Len(t.dt.variants))
    [] t.k \in {"Tuple", "Concat"} ->
         LET parts == [i \in 1..Len(t.types) |-> Dimension(t.types[i])]
             known == [i \in 1..Len(parts) |-> IF parts[i].some THEN parts[i].n ELSE 0]
             sum[i \in 0..Len(parts)] == IF i = 0 THEN 0 ELSE sum[i - 1] + known[i]
             product[i \in 0..Len(parts)] == IF i = 0 THEN 1 ELSE product[i - 1] * known[i]
         IN IF \E i \in 1..Len(parts) : ~parts[i].some THEN Unknown
            ELSE IF Len(parts) = 0 THEN Some(1)
            ELSE IF t.k = "Tuple" THEN Some(product[Len(parts)])
            ELSE Some(sum[Len(parts)])
    [] OTHER -> Unknown

\* C20: Type::size returns the sum of the sizes for a Concat and 1 when it is
\* empty, the product for a Tuple and 1 when it is empty, the number of
\* variants for a Data, and unknown for Any, Func and any Tuple or Concat with
\* a child of unknown size.
C20_SizeOfType ==
  pc = "done" => ret = Dimension(args)

-----------------------------------------------------------------------------
(* SpecScript: one line of the REPL, evaluated by eval_exp_inline in the
   context of create_ctx; what the line printed is kept with its value *)

\* the operands of `...`: indices, tuples, and a value that cannot be iterated
Operands ==
  {ExpIndex(n) : n \in 0..3}
    \cup {ExpTuple(<<>>), ExpTuple(<<ExpVar("F")>>), ExpTuple(<<ExpVar("F"), ExpVar("T")>>),
          ExpVar("F")}

\* (..., ...e, ...) and [..., ...e, ...]
Listing(kind, es) == IF kind = "Tuple" THEN ExpTuple(es) ELSE ExpConcat(es)

\* `...e` directly inside a Tuple or a Concat, after the elements pre
ExpandIn(kind, pre, e) == Listing(kind, pre \o <<ExpExpand(e)>>)

ExpandInScripts ==
  {ExpandIn(kind, pre, e) :
     kind \in {"Tuple", "Concat"}, pre \in {<<>>, <<ExpVar("T")>>}, e \in Operands}

\* `...e` as the line itself, as the value of a block, as a branch of a
\* conditional, as the operand of an annotation and as a whole argument
ExpandElsewhereScripts ==
  UNION {{ExpExpand(e),
          ExpScope(<<Let(PatVar("x"), e)>>, ExpExpand(ExpVar("x"))),
          ExpCond(ExpVar("T"), ExpExpand(e), ExpIndex(0)),
          ExpAnno(ExpExpand(e), PatAny),
          ExpInvoke(ExpLambda(PatVar("x"), ExpVar("x")), ExpExpand(e))} : e \in Operands}

\* the declarations of a block: let x = 1, let x = 2, print x, print 5, an
\* assertion that holds and one that fails
BlockDecls ==
  {Let(PatVar("x"), ExpIndex(1)), Let(PatVar("x"), ExpIndex(2)),
   DeclPrint(ExpVar("x")), DeclPrint(ExpIndex(5)),
   DeclAssert(ExpVar("F"), ExpVar("F")), DeclAssert(ExpVar("F"), ExpVar("T"))}

\* the final expression of a block: { print 9  0 }
Final == ExpScope(<<DeclPrint(ExpIndex(9))>>, ExpIndex(0))

BlockScripts == {ExpScope(decls, Final) : decls \in Vectors(BlockDecls, MaxLines)}

\* the case tables of the gates: negation, the identity on Bool, a table from
\* Bool into Axis and one from Axis into Bool
Tables ==
  {<<CaseExp(ExpVar("F"), ExpVar("T")), CaseExp(ExpVar("T"), ExpVar("F"))>>,
   <<CaseExp(ExpVar("F"), ExpVar("F")), CaseExp(ExpVar("T"), ExpVar("T"))>>,
   <<CaseExp(ExpVar("F"), ExpVar("X")), CaseExp(ExpVar("T"), ExpVar("Z"))>>,
   <<CaseExp(ExpVar("X"), ExpVar("T")), CaseExp(ExpVar("Y"), ExpVar("F")),
     CaseExp(ExpVar("Z"), ExpVar("F"))>>}

\* [fn(x) = extract x {cases}]: the gate of a function
GateOf(cs) ==
  ExpConcat(<<ExpLambda(PatVar("x"), ExpExtract(ExpVar("x"), cs))>>)

\* the arguments of a gate: data values, indices, a tuple and a typed state,
\* each with its amplitude on a row every gate has
GateArgs ==
  {ExpVar("F"), ExpVar("T"), ExpVar("X"), ExpVar("Y"), ExpIndex(0), ExpIndex(1),
   ExpTuple(<<ExpVar("T")>>), ExpConcat(<<ExpVar("T")>>)}

\* [f](a)
GateScripts == {ExpInvoke(GateOf(cs), a) : cs \in Tables, a \in GateArgs}

\* extract a {cases}
ExtractScripts == {ExpExtract(a, cs) : cs \in Tables, a \in GateArgs}

\* a : [Bool] and a : [Axis]
ConcatTypeScripts ==
  {ExpAnno(a, PatConcat(<<PatVar(id)>>)) : a \in GateArgs, id \in {"Bool", "Axis"}}

\* { print n  v }: an element whose evaluation is visible
Noisy(n, v) == ExpScope(<<DeclPrint(ExpIndex(n))>>, v)

\* the values of a single element: data, an index, a tuple, the empty state
\* and a function that has a gate
NoisyValues ==
  {ExpVar("F"), ExpVar("T"), ExpIndex(1), ExpTuple(<<ExpVar("T")>>), ExpConcat(<<>>),
   ExpLambda(PatVar("x"),
             ExpExtract(ExpVar("x"), <<CaseExp(ExpVar("F"), ExpVar("T")),
                                       CaseExp(ExpVar("T"), ExpVar("F"))>>))}

\* [{ print n  v }], and [{ print 1  [] }, ...] with two and three elements
\* (the elements of the longer lists are empty states: their amplitudes need
\* no division by the square root of the number of elements)
ConcatScripts ==
  {ExpConcat(<<Noisy(n, v)>>) : n \in 1..2, v \in NoisyValues}
    \cup UNION {{ExpConcat([i \in 1..len |-> Noisy(ns[i], ExpConcat(<<>>))]) :
                   ns \in [1..len -> 1..3]} : len \in 2..3}

\* the patterns of a let: a, (a, b), (a, (b, c)), ((a, b), c), (_, a),
\* a: Bool, (a, b: Bool) and (a, b: Nope) with a type that is not declared
LetPats ==
  {PatVar("a"),
   PatTuple(<<PatVar("a"), PatVar("b")>>),
   PatTuple(<<PatVar("a"), PatTuple(<<PatVar("b"), PatVar("c")>>)>>),
   PatTuple(<<PatTuple(<<PatVar("a"), PatVar("b")>>), PatVar("c")>>),
   PatTuple(<<PatAny, PatVar("a")>>),
   PatAnno(PatVar("a"), PatVar("Bool")),
   PatTuple(<<PatVar("a"), PatAnno(PatVar("b"), PatVar("Bool"))>>),
   PatTuple(<<PatVar("a"), PatAnno(PatVar("b"), PatVar("Nope"))>>)}

\* the values of a let: 1, (1, 2), (1, 2, 3), (1, (2, 3)), (1, (2,)),
\* ((1, 2), 3), (1, ()) and (F, T)
LetVals ==
  {ExpIndex(1),
   ExpTuple(<<ExpIndex(1), ExpIndex(2)>>),
   ExpTuple(<<ExpIndex(1), ExpIndex(2), ExpIndex(3)>>),
   ExpTuple(<<ExpIndex(1), ExpTuple(<<ExpIndex(2), ExpIndex(3)>>)>>),
   ExpTuple(<<ExpIndex(1), ExpTuple(<<ExpIndex(2)>>)>>),
   ExpTuple(<<ExpTuple(<<ExpIndex(1), ExpIndex(2)>>), ExpIndex(3)>>),
   ExpTuple(<<ExpIndex(1), ExpTuple(<<>>)>>),
   ExpTuple(<<ExpVar("F"), ExpVar("T")>>)}

\* { let pat = val  0 }: the value never fails, so a line that stops was
\* stopped by the error of assign_pat
LetScripts == {ExpScope(<<Let(pat, val)>>, ExpIndex(0)) : pat \in LetPats, val \in LetVals}

Scripts ==
  ExpandInScripts \cup ExpandElsewhereScripts \cup BlockScripts \cup GateScripts
    \cup ExtractScripts \cup ConcatTypeScripts \cup ConcatScripts \cup LetScripts

InitScript ==
  /\ pc = "load"
  /\ args = None /\ ret = None
  /\ IdleGate
  /\ \E m \in {create_ctx} :
       /\ ctx = m.heap[1]
       /\ lambdas = m.lambdas
  /\ calls = {} /\ evals = {} /\ nlines = 0
  /\ line \in Scripts

\* main (repl): eval::eval_exp_inline(&exp, &mut ctx); a panic ends the process
\* after what was printed before it
RunScript ==
  /\ pc = "load"
  /\ \E r \in {eval_exp_inline(line, 1, Machine(ctx, lambdas))} :
        /\ pc' = IF r.m.ok THEN "done" ELSE "panicked"
        /\ ctx' = r.m.heap[1]
        /\ ret' = [val |-> r.val, prints |-> r.m.prints]
        /\ lambdas' = r.m.lambdas
        /\ calls' = r.m.calls
        /\ evals' = r.m.evals
  /\ UNCHANGED <<args, gateVars, line, nlines>>

NextScript == RunScript
SpecScript == InitScript /\ [][NextScript]_vars

\* the values iterate_val gives for the operand e
Spliced(e) ==
  CASE e.k = "Index" -> [i \in 1..e.n |-> ExpIndex(i - 1)]
    [] e.k = "Tuple" -> e.args

\* C21: an Expand directly inside a Tuple or directly inside a Concat is
\* accepted and replaced in place by the values of iterate_val: the line
\* evaluates to what the line with the values written out evaluates to.  An
\* Expand evaluated anywhere else fails.
C21_ExpandInTupleAndConcat ==
  /\ \A kind \in {"Tuple", "Concat"} : \A pre \in {<<>>, <<ExpVar("T")>>} :
       \A e \in Operands \ {ExpVar("F")} :
         (line = ExpandIn(kind, pre, e) /\ pc # "load") =>
           /\ pc = "done"
           /\ ret.val = eval_exp_inline(Listing(kind, pre \o Spliced(e)), 1,
                                        Machine(create_ctx.heap[1], create_ctx.lambdas)).val
  /\ (line \in ExpandElsewhereScripts /\ pc # "load") => pc = "panicked"

\* the declarations of a block read in source order from position i on, with
\* the value x is bound to (None: unbound) and the values printed so far; the
\* reading stops at a declaration that fails
RECURSIVE InOrder(_, _, _, _)
InOrder(decls, i, x, out) ==
  IF i > Len(decls) THEN [x |-> x, out |-> out, failed |-> FALSE]
  ELSE LET d == decls[i]
       IN CASE d.k = "Let" -> InOrder(decls, i + 1, Index(d.exp.n), out)
            [] d.k = "Print" /\ d.exp.k = "Index" ->
                 InOrder(decls, i + 1, x, Append(out, Index(d.exp.n)))
            [] d.k = "Print" /\ d.exp.k = "Var" ->
                 IF x = None THEN [x |-> x, out |-> out, failed |-> TRUE]
                 ELSE InOrder(decls, i + 1, x, Append(out, x))
            [] d.k = "Assert" ->
                 IF d.expect = d.result THEN InOrder(decls, i + 1, x, out)
                 ELSE [x |-> x, out |-> out, failed |-> TRUE]

(* C22: in a Scope evaluated by eval_exp_inline the declarations take effect
   strictly in source order, and when an Assert at position k fails no
   declaration after position k is evaluated (no later Print output, no later
   binding is added to the context) and the final expression of the scope is
   not evaluated. *)
C22_DeclsInOrderStopAtAssert ==
  (line \in BlockScripts /\ pc # "load") =>
    LET r == InOrder(line.decls, 1, None, <<>>)
    IN /\ pc = IF r.failed THEN "panicked" ELSE "done"
       /\ ret.prints = IF r.failed THEN r.out ELSE Append(r.out, Index(9))
       /\ IF r.x = None THEN "x" \notin DOMAIN ctx.vars
          ELSE "x" \in DOMAIN ctx.vars /\ ctx.vars["x"] = r.x

\* { let x = 1  print x  assert F == T  let x = 2 ... }: 1 was printed, the
\* assertion stopped the line, x is still 1 and 9 was never printed
C22_Witness ==
  /\ line = ExpScope(<<Let(PatVar("x"), ExpIndex(1)), DeclPrint(ExpVar("x")),
                       DeclAssert(ExpVar("F"), ExpVar("T"))>>, Final)
  /\ pc = "panicked"
  /\ ret.prints = <<Index(1)>>
  /\ ctx.vars["x"] = Index(1)

\* the gate a table builds, as create_extract_gate_typed builds it in the
\* context of create_ctx
GateValue(cs) ==
  eval_exp_inline(GateOf(cs), 1, Machine(create_ctx.heap[1], create_ctx.lambdas)).val

\* the value of the argument a in the context of create_ctx
ArgValue(a) ==
  eval_exp_inline(a, 1, Machine(create_ctx.heap[1], create_ctx.lambdas)).val

\* C23: invoking a Gate value g on an argument a returns
\* State(extract(build_state(a), g), Any): the type tag of the result is Any
\* whatever the type of the argument is.
C23_GateInvokeIsAny ==
  (line \in GateScripts /\ pc = "done") =>
    /\ ret.val.k = "State"
    /\ ret.val.state = unscale(extract(build_state(ArgValue(line.arg)),
                                       GateValue(line.target.args[1].body.cases).gate))
    /\ ret.val.ty = TAny

\* C25: every State(v, t) that evaluation produces has a length consistent
\* with its type tag: whenever size(t) is known, |v| = size(t); in particular
\* for the result of invoking a Gate on a typed argument, for Type::assign
\* with a Concat type and for the result of an Extract.
C25_StateLengthIsTypeSize ==
  (pc = "done" /\ ret.val.k = "State" /\ size(ret.val.ty).some) =>
    Len(ret.val.state) = size(ret.val.ty).n

\* C26: evaluating Concat(es) evaluates each element expression exactly once,
\* for every number of elements including one: what the elements print is
\* printed once per element, in the order of the elements.
C26_ConcatElementsOnce ==
  (line \in ConcatScripts /\ pc # "load") =>
    ret.prints = [i \in 1..Len(line.args) |-> Index(line.args[i].decls[1].exp.n)]

\* C27: assign_pat is atomic on failure: whenever assign_pat(pat, val, ctx)
\* returns an error (arity mismatch, a sub-pattern that cannot destructure its
\* value, a failing annotation), ctx holds exactly the variable and type
\* bindings it held before the call.
C27_AssignPatAtomic ==
  (line \in LetScripts /\ pc = "panicked") =>
    /\ ctx.vars = create_ctx.heap[1].vars
    /\ ctx.types = create_ctx.heap[1].types

-----------------------------------------------------------------------------
(* SpecTuple: a tuple of Data values is made a state by build_state_typed and
   the index of its amplitude is decoded by Type::from_index, as lib_measure
   does with the index it measured *)

DataValues == {Data(Bool, i) : i \in 0..1} \cup {Data(Axis, i) : i \in 0..2}

\* the longest tuple
MaxArity == 3

TupleInputs == {Tuple(vals) : vals \in Vectors(DataValues, MaxArity)}

InitTuple ==
  /\ pc = "call"
  /\ args \in TupleInputs
  /\ ret = None
  /\ IdleGate /\ IdleEval

\* let (s, t) = build_state_typed(val)?
BuildTuple ==
  /\ pc = "call"
  /\ ret' = build_state_typed(args)
  /\ pc' = "built"
  /\ UNCHANGED <<args, gateVars, evalVars>>

\* t.assign(RunVal::Index(n)) for the index n the state can be measured at:
\* an index whose amplitude is not zero
DecodeTuple ==
  /\ pc = "built"
  /\ \E i \in 1..Len(ret.state) :
       /\ absq(ret.state[i]) # 0
       /\ ret' = assign(ret.ty, Index(i - 1))
  /\ pc' = "done"
  /\ UNCHANGED <<args, gateVars, evalVars>>

NextTuple == BuildTuple \/ DecodeTuple
SpecTuple == InitTuple /\ [][NextTuple]_vars

\* C24: the index encoding of tuples round-trips: for every tuple of Data
\* values, decoding with from_index of the tuple's type the index of the single
\* non-zero amplitude of build_state(tuple) returns the original tuple.
C24_TupleIndexRoundTrip ==
  /\ pc = "built" => Cardinality({i \in 1..Len(ret.state) : absq(ret.state[i]) # 0}) = 1
  /\ pc = "done" => ret = [ok |-> TRUE, val |-> args]

====
